---- MODULE Spec2Model ----
(***************************************************************************)
(* A model of the three Blender add-ons of this repository:                *)
(*   - Transform Saver   (src/transform_saver/__init__.py)                 *)
(*   - Export By Name    (src/NameExporter.py)                             *)
(*   - Super Renamer     (src/SuperRenamer.py)                             *)
(* The host runs operators on its main thread, one at a time: an          *)
(* operator's execute() is one atomic action, except the export operator, *)
(* whose loops are modelled step by step with nothing running in between.  *)
(* The host scene (objects, selection, active object) is state; user edits *)
(* of the scene are environment actions.  Each add-on has a specification  *)
(* of its own session, in which the other add-ons stay at rest.            *)
(***************************************************************************)
EXTENDS Integers, Sequences, FiniteSets, TLC

(***************************************************************************)
(* Bounds of the model.                                                    *)
(***************************************************************************)
\* scene objects are identified by 1..NumObjs (their order in the scene)
NumObjs == 2
\* a transform component (a 3-vector) is abstracted to a value 0..MaxVal
MaxVal == 1
\* at most this many transform groups exist at a time
MaxGroups == 2
\* operations (operators and scene edits) per behaviour
MaxOps == 3

\* Vector((0, 0, 0)) / Euler((0, 0, 0)): the zero value of location, rotation
ZeroVec == 0
\* Vector((1, 1, 1)): the identity scale
OneVec == 1

ObjIds == 1..NumObjs
\* the id that stands for Python's None
None == 0
Names == {"a", "b", "c"}
Vals == 0..MaxVal

VARIABLES
    objects,            \* bpy.data.objects: id -> [exists, name, location, rotation_euler, scale]
    selected,           \* the ids of context.selected_objects
    active,             \* context.view_layer.objects.active (None = 0)
    transform_groups,   \* scene.transform_groups: a sequence of TransformGroup
    last,               \* the last operator call: its arguments, return value and report
    ops,                \* number of operations performed so far
    \* ---- Export By Name
    scene_objs,         \* the scene's objects: id -> [name, type, visible]
    ex_selected,        \* the ids of context.selected_objects
    ex_active,          \* context.view_layer.objects.active (None = 0)
    props,              \* scene.ebn_props
    exporters,          \* the export operators the host offers (bpy.ops.*)
    files,              \* the paths that exist in the export directory
    log_text,           \* the lines of the text block ExportByName_Log
    log_cursor,         \* the text block's cursor: the number of lines before it
    ex,                 \* the export operator's call: its position and locals
    \* ---- Super Renamer
    rn_names,           \* the scene's objects: id -> name
    rn_selected,        \* the ids of context.selected_objects
    rn_props,           \* scene.super_renamer
    preview_data,       \* SUPERRENAMER_OT_rename._preview_data (a class attribute)
    rn                  \* the rename operator: its position, return value and report

tsVars == <<objects, selected, active, transform_groups, last>>
exVars == <<scene_objs, ex_selected, ex_active, props, exporters, files, log_text, log_cursor, ex>>
rnVars == <<rn_names, rn_selected, rn_props, preview_data, rn>>
vars == <<objects, selected, active, transform_groups, last, ops,
          scene_objs, ex_selected, ex_active, props, exporters, files, log_text, log_cursor, ex,
          rn_names, rn_selected, rn_props, preview_data, rn>>

(***************************************************************************)
(* Transform Saver: data                                                   *)
(***************************************************************************)
\* an object slot that holds no object
NoObject == [exists |-> FALSE, name |-> "", location |-> ZeroVec,
             rotation_euler |-> ZeroVec, scale |-> OneVec]

\* a freshly created scene object
NewObject(n) == [exists |-> TRUE, name |-> n, location |-> ZeroVec,
                 rotation_euler |-> ZeroVec, scale |-> OneVec]

\* class TransformData with its property defaults; item_add sets object_name
\* and has_saved.  saved_from is a history field: the transform the object
\* had when the item was last saved.
TransformData(n) == [object_name |-> n, location |-> ZeroVec, rotation |-> ZeroVec,
                     scale |-> OneVec, has_saved |-> FALSE,
                     saved_from |-> <<ZeroVec, ZeroVec, OneVec>>]

\* class TransformGroup with its property defaults (the display name is left out)
TransformGroup == [items |-> <<>>, expanded |-> TRUE, apply_location |-> TRUE,
                   apply_rotation |-> TRUE, apply_scale |-> TRUE]

\* a lookup bound to the object instead of its name: the object that bore the
\* name when the scene was set up ("a" the first, "b" the second)
GetObject_bound(objs, n) ==
    IF n = "a" /\ objs[1].exists THEN 1
    ELSE IF n = "b" /\ objs[2].exists THEN 2
    ELSE None

\* bpy.data.objects.get(name): the id of the object of that name, or None
GetObject(objs, n) ==
    IF \E o \in ObjIds : objs[o].exists /\ objs[o].name = n
    THEN CHOOSE o \in ObjIds : objs[o].exists /\ objs[o].name = n
    ELSE None

\* name in bpy.data.objects
InObjects(objs, n) == GetObject(objs, n) # None

\* context.selected_objects, in scene order
selected_objects == SelectSeq([o \in ObjIds |-> o], LAMBDA o : o \in selected)

\* {obj.name for obj in context.selected_objects}
selected_names == {objects[o].name : o \in selected}

\* the index arguments an operator is called with: the valid indices of seq and
\* one value out of range on each side
IndexArgs(seq) == (0 - 1)..Len(seq)

\* the item indices to call an operator with, for a group index that may be invalid
ItemArgs(groups, g) == IF 0 <= g /\ g < Len(groups) THEN IndexArgs(groups[g + 1].items)
                       ELSE {0}

\* 0 <= index < len(seq)
ValidIndex(index, seq) == 0 <= index /\ index < Len(seq)

\* what an operator leaves in `last`
Call(op, g, i, ret, count, skipped) ==
    [op |-> op, g |-> g, i |-> i, ret |-> ret, count |-> count, skipped |-> skipped]

\* one more operation of the Transform Saver session
Tick == ops < MaxOps /\ ops' = ops + 1 /\ UNCHANGED <<exVars, rnVars>>

\* the state of `last` after a scene edit by the user: no operator result
NoCall == Call("edit", 0, 0, "", 0, 0)

\* seq without its element at 0-based index i (CollectionProperty.remove)
RemoveAt(seq, i) == [k \in 1..(Len(seq) - 1) |-> IF k <= i THEN seq[k] ELSE seq[k + 1]]

(***************************************************************************)
(* Transform Saver: helper functions and loops                             *)
(***************************************************************************)
\* apply_zero without its has_saved test
apply_zero_unsaved(objs, item, apply_loc, apply_rot, apply_scale) ==
    LET obj == GetObject(objs, item.object_name) IN
    IF obj = None THEN [success |-> FALSE, objs |-> objs]
    ELSE [success |-> TRUE,
          objs |-> [objs EXCEPT
              ![obj].location = IF apply_loc THEN ZeroVec ELSE @,
              ![obj].rotation_euler = IF apply_rot THEN ZeroVec ELSE @,
              ![obj].scale = IF apply_scale THEN OneVec ELSE @]]

\* apply_zero with the scale left as it is
apply_zero_no_scale(objs, item, apply_loc, apply_rot, apply_scale) ==
    IF ~item.has_saved THEN [success |-> FALSE, objs |-> objs]
    ELSE LET obj == GetObject(objs, item.object_name) IN
         IF obj = None THEN [success |-> FALSE, objs |-> objs]
         ELSE [success |-> TRUE,
               objs |-> [objs EXCEPT
                   ![obj].location = IF apply_loc THEN ZeroVec ELSE @,
                   ![obj].rotation_euler = IF apply_rot THEN ZeroVec ELSE @]]

\* apply_zero resetting all three components whatever the flags are
apply_zero_unflagged(objs, item, apply_loc, apply_rot, apply_scale) ==
    IF ~item.has_saved THEN [success |-> FALSE, objs |-> objs]
    ELSE LET obj == GetObject(objs, item.object_name) IN
         IF obj = None THEN [success |-> FALSE, objs |-> objs]
         ELSE [success |-> TRUE,
               objs |-> [objs EXCEPT ![obj].location = ZeroVec,
                                     ![obj].rotation_euler = ZeroVec,
                                     ![obj].scale = OneVec]]

\* apply_zero: [success, objs]
apply_zero(objs, item, apply_loc, apply_rot, apply_scale) ==
    IF ~item.has_saved THEN [success |-> FALSE, objs |-> objs]
    ELSE LET obj == GetObject(objs, item.object_name) IN
         IF obj = None THEN [success |-> FALSE, objs |-> objs]
         ELSE [success |-> TRUE,
               objs |-> [objs EXCEPT
                   ![obj].location = IF apply_loc THEN ZeroVec ELSE @,
                   ![obj].rotation_euler = IF apply_rot THEN ZeroVec ELSE @,
                   ![obj].scale = IF apply_scale THEN OneVec ELSE @]]

\* apply_restore with the scale left out
apply_restore_no_scale(objs, item, apply_loc, apply_rot, apply_scale) ==
    IF ~item.has_saved THEN [success |-> FALSE, objs |-> objs]
    ELSE LET obj == GetObject(objs, item.object_name) IN
         IF obj = None THEN [success |-> FALSE, objs |-> objs]
         ELSE [success |-> TRUE,
               objs |-> [objs EXCEPT
                   ![obj].location = IF apply_loc THEN item.location ELSE @,
                   ![obj].rotation_euler = IF apply_rot THEN item.rotation ELSE @]]

\* apply_restore writing all three components whatever the flags are
apply_restore_unflagged(objs, item, apply_loc, apply_rot, apply_scale) ==
    IF ~item.has_saved THEN [success |-> FALSE, objs |-> objs]
    ELSE LET obj == GetObject(objs, item.object_name) IN
         IF obj = None THEN [success |-> FALSE, objs |-> objs]
         ELSE [success |-> TRUE,
               objs |-> [objs EXCEPT ![obj].location = item.location,
                                     ![obj].rotation_euler = item.rotation,
                                     ![obj].scale = item.scale]]

\* apply_restore: [success, objs]
apply_restore(objs, item, apply_loc, apply_rot, apply_scale) ==
    IF ~item.has_saved THEN [success |-> FALSE, objs |-> objs]
    ELSE LET obj == GetObject(objs, item.object_name) IN
         IF obj = None THEN [success |-> FALSE, objs |-> objs]
         ELSE [success |-> TRUE,
               objs |-> [objs EXCEPT
                   ![obj].location = IF apply_loc THEN item.location ELSE @,
                   ![obj].rotation_euler = IF apply_rot THEN item.rotation ELSE @,
                   ![obj].scale = IF apply_scale THEN item.scale ELSE @]]

\* the body of the save loops for one item: the item after the iteration
SaveItem(objs, item) ==
    LET obj == GetObject(objs, item.object_name) IN
    IF obj # None
    THEN [item EXCEPT !.location = objs[obj].location,
                      !.rotation = objs[obj].rotation_euler,
                      !.scale = objs[obj].scale,
                      !.has_saved = TRUE,
                      !.saved_from = <<objs[obj].location, objs[obj].rotation_euler,
                                       objs[obj].scale>>]
    ELSE item

\* the save loop pruning the items whose object is gone
RECURSIVE SaveLoop_pruning(_, _, _, _, _, _)
SaveLoop_pruning(objs, items, k, names, only_selected, count) ==
    IF k > Len(items) THEN [items |-> items, count |-> count]
    ELSE IF only_selected /\ items[k].object_name \notin names
         THEN SaveLoop_pruning(objs, items, k + 1, names, only_selected, count)
         ELSE IF GetObject(objs, items[k].object_name) # None
              THEN SaveLoop_pruning(objs, [items EXCEPT ![k] = SaveItem(objs, items[k])],
                                    k + 1, names, only_selected, count + 1)
              ELSE SaveLoop_pruning(objs, RemoveAt(items, k - 1), k, names,
                                    only_selected, count)

\* the save loop ending at the first item whose object is gone
RECURSIVE SaveLoop_stopping(_, _, _, _, _, _)
SaveLoop_stopping(objs, items, k, names, only_selected, count) ==
    IF k > Len(items) THEN [items |-> items, count |-> count]
    ELSE IF only_selected /\ items[k].object_name \notin names
         THEN SaveLoop_stopping(objs, items, k + 1, names, only_selected, count)
         ELSE IF GetObject(objs, items[k].object_name) # None
              THEN SaveLoop_stopping(objs, [items EXCEPT ![k] = SaveItem(objs, items[k])],
                                     k + 1, names, only_selected, count + 1)
              ELSE [items |-> items, count |-> count]

\* `for item in group.items` of save_all (only_selected = FALSE) and of
\* save_selected (only_selected = TRUE), from item k on: [items, count]
RECURSIVE SaveLoop(_, _, _, _, _, _)
SaveLoop(objs, items, k, names, only_selected, count) ==
    IF k > Len(items) THEN [items |-> items, count |-> count]
    ELSE IF only_selected /\ items[k].object_name \notin names
         THEN SaveLoop(objs, items, k + 1, names, only_selected, count)
         ELSE IF GetObject(objs, items[k].object_name) # None
              THEN SaveLoop(objs, [items EXCEPT ![k] = SaveItem(objs, items[k])],
                            k + 1, names, only_selected, count + 1)
              ELSE SaveLoop(objs, items, k + 1, names, only_selected, count)

\* `for item in group.items` of the zero and restore operators, from item k on:
\* [objs, count]
RECURSIVE ApplyLoop(_, _, _, _, _, _, _)
ApplyLoop(objs, group, k, names, only_selected, restore, count) ==
    IF k > Len(group.items) THEN [objs |-> objs, count |-> count]
    ELSE LET item == group.items[k] IN
         IF only_selected /\ item.object_name \notin names
         THEN ApplyLoop(objs, group, k + 1, names, only_selected, restore, count)
         ELSE LET r == IF restore
                       THEN apply_restore(objs, item, group.apply_location,
                                          group.apply_rotation, group.apply_scale)
                       ELSE apply_zero(objs, item, group.apply_location,
                                       group.apply_rotation, group.apply_scale)
              IN ApplyLoop(r.objs, group, k + 1, names, only_selected, restore,
                           IF r.success THEN count + 1 ELSE count)

\* the loop of the two global operators taking the groups from the last to the first
RECURSIVE GlobalLoop_backwards(_, _, _, _, _, _)
GlobalLoop_backwards(objs, groups, g, names, restore, count) ==
    IF g > Len(groups) THEN [objs |-> objs, count |-> count]
    ELSE LET r == ApplyLoop(objs, groups[Len(groups) - g + 1], 1, names, TRUE, restore, count)
         IN GlobalLoop_backwards(r.objs, groups, g + 1, names, restore, r.count)

\* `for group in scene.transform_groups` of the two global operators, from
\* group g on: [objs, count]
RECURSIVE GlobalLoop(_, _, _, _, _, _)
GlobalLoop(objs, groups, g, names, restore, count) ==
    IF g > Len(groups) THEN [objs |-> objs, count |-> count]
    ELSE LET r == ApplyLoop(objs, groups[g], 1, names, TRUE, restore, count)
         IN GlobalLoop(r.objs, groups, g + 1, names, restore, r.count)

\* the loop of item_add without its test of existing_names
RECURSIVE AddLoop_unchecked(_, _, _, _, _)
AddLoop_unchecked(objs, items, sel, added, skipped) ==
    IF sel = <<>> THEN [items |-> items, added |-> added, skipped |-> skipped]
    ELSE AddLoop_unchecked(objs, Append(items, TransformData(objs[Head(sel)].name)),
                           Tail(sel), added + 1, skipped)

\* `for obj in context.selected_objects` of item_add: [items, added, skipped]
RECURSIVE AddLoop(_, _, _, _, _)
AddLoop(objs, items, sel, added, skipped) ==
    IF sel = <<>> THEN [items |-> items, added |-> added, skipped |-> skipped]
    ELSE LET n == objs[Head(sel)].name IN
         IF \E k \in 1..Len(items) : items[k].object_name = n
         THEN AddLoop(objs, items, Tail(sel), added, skipped + 1)
         ELSE AddLoop(objs, Append(items, TransformData(n)), Tail(sel), added + 1, skipped)

\* the loop of clean_missing removing every item
CleanLoop_clearing(objs, items, i, removed) == [items |-> <<>>, removed |-> Len(items)]

\* `for i in range(len(group.items) - 1, -1, -1)` of clean_missing, at 0-based
\* index i: [items, removed]
RECURSIVE CleanLoop(_, _, _, _)
CleanLoop(objs, items, i, removed) ==
    IF i < 0 THEN [items |-> items, removed |-> removed]
    ELSE IF ~InObjects(objs, items[i + 1].object_name)
         THEN CleanLoop(objs, RemoveAt(items, i), i - 1, removed + 1)
         ELSE CleanLoop(objs, items, i - 1, removed)

\* `for item in group.items` of select_group, from item k on: [selected, active, count]
RECURSIVE SelectLoop(_, _, _, _, _, _)
SelectLoop(objs, items, k, sel, act, count) ==
    IF k > Len(items) THEN [selected |-> sel, active |-> act, count |-> count]
    ELSE LET obj == GetObject(objs, items[k].object_name) IN
         IF obj # None
         THEN SelectLoop(objs, items, k + 1, sel \cup {obj},
                         IF count = 0 THEN obj ELSE act, count + 1)
         ELSE SelectLoop(objs, items, k + 1, sel, act, count)

\* count_missing_objects(group)
count_missing_objects(objs, group) ==
    Cardinality({k \in 1..Len(group.items) : ~InObjects(objs, group.items[k].object_name)})

(***************************************************************************)
(* Transform Saver: operators                                              *)
(***************************************************************************)
\* an operator that returns CANCELLED after it has deselected everything
Cancelled_deselecting(op, g, i) ==
    /\ last' = Call(op, g, i, "CANCELLED", 0, 0)
    /\ selected' = {}
    /\ UNCHANGED <<objects, active, transform_groups>>

\* an operator that returns CANCELLED before it changes anything
Cancelled(op, g, i) ==
    /\ last' = Call(op, g, i, "CANCELLED", 0, 0)
    /\ UNCHANGED <<objects, selected, active, transform_groups>>

\* the group at Python index g
GroupAt(g) == transform_groups[g + 1]

\* TRANSFORMSAVER_OT_group_add.execute
group_add ==
    /\ Tick
    /\ Len(transform_groups) < MaxGroups
    /\ transform_groups' = Append(transform_groups, TransformGroup)
    /\ last' = Call("group_add", 0, 0, "FINISHED", 0, 0)
    /\ UNCHANGED <<objects, selected, active>>

\* TRANSFORMSAVER_OT_group_remove.execute
group_remove(g) ==
    /\ Tick
    /\ transform_groups' = IF ValidIndex(g, transform_groups)
                           THEN RemoveAt(transform_groups, g)
                           ELSE transform_groups
    /\ last' = Call("group_remove", g, 0, "FINISHED", 0, 0)
    /\ UNCHANGED <<objects, selected, active>>

\* TRANSFORMSAVER_OT_group_toggle.execute
group_toggle(g) ==
    /\ Tick
    /\ transform_groups' = IF ValidIndex(g, transform_groups)
                           THEN [transform_groups EXCEPT ![g + 1].expanded = ~@]
                           ELSE transform_groups
    /\ last' = Call("group_toggle", g, 0, "FINISHED", 0, 0)
    /\ UNCHANGED <<objects, selected, active>>

\* TRANSFORMSAVER_OT_item_add: poll and execute
item_add(g) ==
    /\ Tick
    /\ Len(selected_objects) > 0
    /\ IF ~ValidIndex(g, transform_groups) THEN Cancelled("item_add", g, 0)
       ELSE LET r == AddLoop(objects, GroupAt(g).items, selected_objects, 0, 0) IN
            /\ transform_groups' = [transform_groups EXCEPT ![g + 1].items = r.items]
            /\ last' = Call("item_add", g, 0, "FINISHED", r.added, r.skipped)
            /\ UNCHANGED <<objects, selected, active>>

\* TRANSFORMSAVER_OT_item_remove.execute
item_remove(g, i) ==
    /\ Tick
    /\ IF ~ValidIndex(g, transform_groups) THEN Cancelled("item_remove", g, i)
       ELSE /\ transform_groups' =
                   IF ValidIndex(i, GroupAt(g).items)
                   THEN [transform_groups EXCEPT ![g + 1].items = RemoveAt(@, i)]
                   ELSE transform_groups
            /\ last' = Call("item_remove", g, i, "FINISHED", 0, 0)
            /\ UNCHANGED <<objects, selected, active>>

\* TRANSFORMSAVER_OT_clean_missing.execute
clean_missing(g) ==
    /\ Tick
    /\ IF ~ValidIndex(g, transform_groups) THEN Cancelled("clean_missing", g, 0)
       ELSE LET r == CleanLoop(objects, GroupAt(g).items, Len(GroupAt(g).items) - 1, 0) IN
            /\ transform_groups' = [transform_groups EXCEPT ![g + 1].items = r.items]
            /\ last' = Call("clean_missing", g, 0, "FINISHED", r.removed, 0)
            /\ UNCHANGED <<objects, selected, active>>

\* the execute of save_all and save_selected
Save(op, g, only_selected) ==
    /\ Tick
    /\ IF ~ValidIndex(g, transform_groups) THEN Cancelled(op, g, 0)
       ELSE LET r == SaveLoop(objects, GroupAt(g).items, 1, selected_names,
                              only_selected, 0) IN
            /\ transform_groups' = [transform_groups EXCEPT ![g + 1].items = r.items]
            /\ last' = Call(op, g, 0, "FINISHED", r.count, 0)
            /\ UNCHANGED <<objects, selected, active>>

\* zero and restore operators that use the snapshot up: the items of the group
\* are left without saved data
Apply_consuming(op, g, only_selected, restore) ==
    /\ Tick
    /\ IF ~ValidIndex(g, transform_groups) THEN Cancelled(op, g, 0)
       ELSE LET r == ApplyLoop(objects, GroupAt(g), 1, selected_names,
                               only_selected, restore, 0) IN
            /\ objects' = r.objs
            /\ last' = Call(op, g, 0, "FINISHED", r.count, 0)
            /\ transform_groups' =
                   [transform_groups EXCEPT ![g + 1].items =
                        [k \in 1..Len(@) |-> [@[k] EXCEPT !.has_saved = FALSE]]]
            /\ UNCHANGED <<selected, active>>

\* the execute of zero_all, zero_selected, restore_all and restore_selected
Apply(op, g, only_selected, restore) ==
    /\ Tick
    /\ IF ~ValidIndex(g, transform_groups) THEN Cancelled(op, g, 0)
       ELSE LET r == ApplyLoop(objects, GroupAt(g), 1, selected_names,
                               only_selected, restore, 0) IN
            /\ objects' = r.objs
            /\ last' = Call(op, g, 0, "FINISHED", r.count, 0)
            /\ UNCHANGED <<selected, active, transform_groups>>

\* the execute of zero_selected_global and restore_selected_global
ApplyGlobal(op, restore) ==
    /\ Tick
    /\ LET r == GlobalLoop(objects, transform_groups, 1, selected_names, restore, 0) IN
       /\ objects' = r.objs
       /\ last' = Call(op, 0, 0, "FINISHED", r.count, 0)
       /\ UNCHANGED <<selected, active, transform_groups>>

\* TRANSFORMSAVER_OT_save_all.execute
save_all(g) == Save("save_all", g, FALSE)

\* TRANSFORMSAVER_OT_zero_all.execute
zero_all(g) == Apply("zero_all", g, FALSE, FALSE)

\* TRANSFORMSAVER_OT_restore_all.execute
restore_all(g) == Apply("restore_all", g, FALSE, TRUE)

\* TRANSFORMSAVER_OT_save_selected.execute
save_selected(g) == Save("save_selected", g, TRUE)

\* TRANSFORMSAVER_OT_zero_selected.execute
zero_selected(g) == Apply("zero_selected", g, TRUE, FALSE)

\* TRANSFORMSAVER_OT_restore_selected.execute
restore_selected(g) == Apply("restore_selected", g, TRUE, TRUE)

\* TRANSFORMSAVER_OT_zero_selected_global.execute
zero_selected_global == ApplyGlobal("zero_selected_global", FALSE)

\* TRANSFORMSAVER_OT_restore_selected_global.execute
restore_selected_global == ApplyGlobal("restore_selected_global", TRUE)

\* TRANSFORMSAVER_OT_select.execute
select(g, i) ==
    /\ Tick
    /\ IF ~ValidIndex(g, transform_groups) THEN Cancelled("select", g, i)
       ELSE IF ~ValidIndex(i, GroupAt(g).items) THEN Cancelled("select", g, i)
       ELSE LET obj == GetObject(objects, GroupAt(g).items[i + 1].object_name) IN
            IF obj = None THEN Cancelled("select", g, i)
            ELSE /\ selected' = {obj}
                 /\ active' = obj
                 /\ last' = Call("select", g, i, "FINISHED", 0, 0)
                 /\ UNCHANGED <<objects, transform_groups>>

\* TRANSFORMSAVER_OT_select_group.execute
select_group(g) ==
    /\ Tick
    /\ IF ~ValidIndex(g, transform_groups) THEN Cancelled("select_group", g, 0)
       ELSE LET r == SelectLoop(objects, GroupAt(g).items, 1, {}, active, 0) IN
            /\ selected' = r.selected
            /\ active' = r.active
            /\ last' = Call("select_group", g, 0, "FINISHED", r.count, 0)
            /\ UNCHANGED <<objects, transform_groups>>

(***************************************************************************)
(* Transform Saver: what the user does to the scene between operator calls *)
(***************************************************************************)
\* the user selects or deselects an object in the viewport
UserSelect(o) ==
    /\ Tick
    /\ objects[o].exists
    /\ selected' = IF o \in selected THEN selected \ {o} ELSE selected \cup {o}
    /\ last' = NoCall
    /\ UNCHANGED <<objects, active, transform_groups>>

\* the user moves, rotates or scales an object: one component gets another value
UserTransform(o, component, v) ==
    /\ Tick
    /\ objects[o].exists
    /\ objects' = CASE component = "location" -> [objects EXCEPT ![o].location = v]
                    [] component = "rotation_euler" ->
                           [objects EXCEPT ![o].rotation_euler = v]
                    [] component = "scale" -> [objects EXCEPT ![o].scale = v]
    /\ objects' # objects
    /\ last' = NoCall
    /\ UNCHANGED <<selected, active, transform_groups>>

\* the user deletes an object
UserDelete(o) ==
    /\ Tick
    /\ objects[o].exists
    /\ objects' = [objects EXCEPT ![o] = NoObject]
    /\ selected' = selected \ {o}
    /\ active' = IF active = o THEN None ELSE active
    /\ last' = NoCall
    /\ UNCHANGED transform_groups

\* the user renames an object to a name no object bears
UserRename(o, n) ==
    /\ Tick
    /\ objects[o].exists
    /\ ~InObjects(objects, n)
    /\ objects' = [objects EXCEPT ![o].name = n]
    /\ last' = NoCall
    /\ UNCHANGED <<selected, active, transform_groups>>

\* the user adds an object under a name no object bears
UserCreate(o, n) ==
    /\ Tick
    /\ ~objects[o].exists
    /\ ~InObjects(objects, n)
    /\ objects' = [objects EXCEPT ![o] = NewObject(n)]
    /\ last' = NoCall
    /\ UNCHANGED <<selected, active, transform_groups>>

\* the user toggles one of the group's Apply check boxes in the panel
UserSetApply(g, flag) ==
    /\ Tick
    /\ ValidIndex(g, transform_groups)
    /\ transform_groups' =
           CASE flag = "apply_location" ->
                    [transform_groups EXCEPT ![g + 1].apply_location = ~@]
             [] flag = "apply_rotation" ->
                    [transform_groups EXCEPT ![g + 1].apply_rotation = ~@]
             [] flag = "apply_scale" ->
                    [transform_groups EXCEPT ![g + 1].apply_scale = ~@]
    /\ last' = NoCall
    /\ UNCHANGED <<objects, selected, active>>

(***************************************************************************)
(* Transform Saver: specification                                          *)
(***************************************************************************)
\* the add-on just registered in a scene of two objects, "a" and "b": no group
TSFresh ==
    /\ objects = [o \in ObjIds |-> IF o = 1 THEN NewObject("a")
                                   ELSE IF o = 2 THEN NewObject("b") ELSE NoObject]
    /\ selected = {}
    /\ transform_groups = <<>>

\* the transform an object is given in the sessions below: nothing at its default
Moved(obj) == [obj EXCEPT !.location = MaxVal, !.rotation_euler = MaxVal,
                          !.scale = ZeroVec]

\* a session under way: the user has moved object "a", made a group of "a" and
\* "b" and a group of "a" alone (group_add, item_add with "a" and "b" selected,
\* group_add, item_add with "a" selected); nothing is saved yet
TSSeeded ==
    /\ objects = [o \in ObjIds |-> IF o = 1 THEN Moved(NewObject("a"))
                                   ELSE IF o = 2 THEN NewObject("b") ELSE NoObject]
    /\ selected = {1}
    /\ transform_groups =
           <<[TransformGroup EXCEPT !.items = <<TransformData("a"), TransformData("b")>>],
             [TransformGroup EXCEPT !.items = <<TransformData("a")>>]>>

\* the same session one operator later: save_all on the first group
TSSaved ==
    /\ objects = [o \in ObjIds |-> IF o = 1 THEN Moved(NewObject("a"))
                                   ELSE IF o = 2 THEN NewObject("b") ELSE NoObject]
    /\ selected = {1}
    /\ transform_groups =
           <<[TransformGroup EXCEPT !.items =
                  <<SaveItem(objects, TransformData("a")),
                    SaveItem(objects, TransformData("b"))>>],
             [TransformGroup EXCEPT !.items = <<TransformData("a")>>]>>

TSInit ==
    /\ TSFresh \/ TSSeeded \/ TSSaved
    /\ active = None
    /\ last = NoCall
    /\ ops = 0

TSNext ==
    \/ group_add
    \/ \E g \in IndexArgs(transform_groups) : group_remove(g)
    \/ \E g \in IndexArgs(transform_groups) : group_toggle(g)
    \/ \E g \in IndexArgs(transform_groups) : item_add(g)
    \/ \E g \in IndexArgs(transform_groups) :
           \E i \in ItemArgs(transform_groups, g) : item_remove(g, i)
    \/ \E g \in IndexArgs(transform_groups) : clean_missing(g)
    \/ \E g \in IndexArgs(transform_groups) : save_all(g)
    \/ \E g \in IndexArgs(transform_groups) : zero_all(g)
    \/ \E g \in IndexArgs(transform_groups) : restore_all(g)
    \/ \E g \in IndexArgs(transform_groups) : save_selected(g)
    \/ \E g \in IndexArgs(transform_groups) : zero_selected(g)
    \/ \E g \in IndexArgs(transform_groups) : restore_selected(g)
    \/ zero_selected_global
    \/ restore_selected_global
    \/ \E g \in IndexArgs(transform_groups) :
           \E i \in ItemArgs(transform_groups, g) : select(g, i)
    \/ \E g \in IndexArgs(transform_groups) : select_group(g)
    \/ \E o \in ObjIds : UserSelect(o)
    \/ \E o \in ObjIds, c \in {"location", "rotation_euler", "scale"}, v \in Vals :
           UserTransform(o, c, v)
    \/ \E o \in ObjIds : UserDelete(o)
    \/ \E o \in ObjIds, n \in Names : UserRename(o, n)
    \/ \E o \in ObjIds, n \in Names : UserCreate(o, n)
    \/ \E g \in IndexArgs(transform_groups),
          flag \in {"apply_location", "apply_rotation", "apply_scale"} :
           UserSetApply(g, flag)

(***************************************************************************)
(* Transform Saver: properties                                             *)
(***************************************************************************)
SaveOps == {"save_all", "save_selected"}
ZeroOps == {"zero_all", "zero_selected", "zero_selected_global"}
RestoreOps == {"restore_all", "restore_selected", "restore_selected_global"}
RemoveOps == {"item_remove", "clean_missing", "group_remove"}

\* the positions (g, k), 1-based, of all items of all groups
ItemsOf(groups) == {p \in (1..Len(groups)) \X (1..Cardinality(Names)) :
                        p[2] <= Len(groups[p[1]].items)}

\* location, rotation and scale of object o
TransformOf(objs, o) == <<objs[o].location, objs[o].rotation_euler, objs[o].scale>>

AllFlags(group) == group.apply_location /\ group.apply_rotation /\ group.apply_scale

\* the restore operator that ran last covered the item at p: the item is in the
\* operator's scope, has saved data and its object exists
RestoreCovers(p) ==
    LET item == transform_groups[p[1]].items[p[2]] IN
    /\ last.op \in RestoreOps /\ last.ret = "FINISHED"
    /\ item.has_saved /\ InObjects(objects, item.object_name)
    /\ last.op = "restore_all" => last.g = p[1] - 1
    /\ last.op = "restore_selected" =>
           last.g = p[1] - 1 /\ item.object_name \in selected_names
    /\ last.op = "restore_selected_global" => item.object_name \in selected_names

\* the object of the item at p has the transform it had when the item was saved
RestoredAsSaved(p) ==
    LET item == transform_groups[p[1]].items[p[2]] IN
    TransformOf(objects, GetObject(objects, item.object_name)) = item.saved_from

OverriddenLater(p) ==
    \E q \in ItemsOf(transform_groups) :
        /\ q[1] > p[1]
        /\ RestoreCovers(q)
        /\ transform_groups[q[1]].items[q[2]].object_name =
               transform_groups[p[1]].items[p[2]].object_name

ItemAt(groups, p) == groups[p[1]].items[p[2]]

\* the items of the operator call `call` on the groups: the positions its loop visits
\* and does not pass over for not being selected
InScope(groups, names, call) ==
    {p \in ItemsOf(groups) :
        /\ call.op \in {"save_all", "zero_all", "restore_all", "select_group",
                        "save_selected", "zero_selected", "restore_selected"}
               => call.g = p[1] - 1
        /\ call.op \in {"save_selected", "zero_selected", "restore_selected",
                        "zero_selected_global", "restore_selected_global"}
               => ItemAt(groups, p).object_name \in names}

\* the step is a call of one of the operators of `opset` that got past its index test
Ran(opset) == last'.op \in opset /\ last'.ret = "FINISHED"

ItemNames(group) == [k \in 1..Len(group.items) |-> group.items[k].object_name]

\* s is a prefix of t
IsPrefix(s, t) == Len(s) <= Len(t) /\ \A k \in 1..Len(s) : s[k] = t[k]

\* C6: no automatic pruning.  A step that is not item_remove, clean_missing or
\* group_remove (any other operator, or the user deleting or renaming an
\* object) removes no group and no item and keeps the order of the items:
\* every group's item list is a prefix of what it is after the step.
C6_NeverPruned ==
    [][ last'.op \notin RemoveOps =>
            /\ Len(transform_groups) <= Len(transform_groups')
            /\ \A g \in 1..Len(transform_groups) :
                   IsPrefix(ItemNames(transform_groups[g]), ItemNames(transform_groups'[g]))
      ]_vars

\* C6 witness: a save operator has run on a group one of whose items refers to
\* an object that is gone, and the item is still there
C6_Witness ==
    /\ last.op \in SaveOps /\ last.ret = "FINISHED"
    /\ \E p \in ItemsOf(transform_groups) :
           /\ p[1] = last.g + 1
           /\ ~InObjects(objects, ItemAt(transform_groups, p).object_name)

\* the operators that loop over the items of one group or of all groups
LoopOps == SaveOps \cup ZeroOps \cup RestoreOps \cup {"select_group"}
GlobalOps == {"zero_selected_global", "restore_selected_global"}

\* the object the item at p refers to is in the scene
Present(groups, objs, p) == InObjects(objs, ItemAt(groups, p).object_name)

\* C8: a missing object is not fatal.  When save, zero, restore (all, selected,
\* global) or select_group runs on a valid group, it returns FINISHED; an item
\* whose object_name names no scene object keeps its data and is not counted:
\* the reported count is the number of items in scope whose object exists (and,
\* for zero and restore, that have saved data); every such item is processed
\* (saved with the object's transform, its object selected, zeroed or
\* restored).  select on an item whose object is missing returns CANCELLED and
\* leaves the selection unchanged.
C8_AbsenceNonFatal ==
    [][ /\ ( /\ last'.op \in LoopOps
             /\ last'.op \in GlobalOps \/ ValidIndex(last'.g, transform_groups) )
           => LET scope == InScope(transform_groups, selected_names, last')
                  live == {p \in scope :
                              /\ Present(transform_groups, objects, p)
                              /\ last'.op \in ZeroOps \cup RestoreOps
                                     => ItemAt(transform_groups, p).has_saved}
              IN /\ last'.ret = "FINISHED"
                 /\ \A p \in ItemsOf(transform_groups) :
                        ~Present(transform_groups, objects, p)
                            => ItemAt(transform_groups', p) = ItemAt(transform_groups, p)
                 /\ last'.count = Cardinality(live)
                 /\ \A p \in live :
                        LET item == ItemAt(transform_groups, p)
                            obj == GetObject(objects, item.object_name)
                        IN /\ last'.op \in SaveOps =>
                                  /\ ItemAt(transform_groups', p).has_saved
                                  /\ ItemAt(transform_groups', p).location =
                                         objects[obj].location
                                  /\ ItemAt(transform_groups', p).rotation =
                                         objects[obj].rotation_euler
                                  /\ ItemAt(transform_groups', p).scale = objects[obj].scale
                           /\ last'.op = "select_group" => obj \in selected'
                           /\ last'.op \in ZeroOps /\ AllFlags(transform_groups[p[1]]) =>
                                  TransformOf(objects', obj) = <<ZeroVec, ZeroVec, OneVec>>
                           /\ last'.op \in RestoreOps \ GlobalOps
                              /\ AllFlags(transform_groups[p[1]]) =>
                                  TransformOf(objects', obj) =
                                      <<item.location, item.rotation, item.scale>>
        /\ ( /\ last'.op = "select"
             /\ ValidIndex(last'.g, transform_groups)
             /\ ValidIndex(last'.i, transform_groups[last'.g + 1].items)
             /\ ~Present(transform_groups, objects, <<last'.g + 1, last'.i + 1>>) )
           => last'.ret = "CANCELLED" /\ selected' = selected
      ]_vars

\* C8 witness: save_all has run on a group whose first item refers to an object
\* that is gone and whose second item was saved in that call
C8_Witness ==
    /\ last.op = "save_all" /\ last.ret = "FINISHED" /\ last.count = 1
    /\ Len(transform_groups[last.g + 1].items) = 2
    /\ ~Present(transform_groups, objects, <<last.g + 1, 1>>)
    /\ ~ItemAt(transform_groups, <<last.g + 1, 1>>).has_saved
    /\ Present(transform_groups, objects, <<last.g + 1, 2>>)
    /\ ItemAt(transform_groups, <<last.g + 1, 2>>).has_saved

\* the transform of an object after a reset: Loc=0, Rot=0, Scale=1
ZeroTransform == <<ZeroVec, ZeroVec, OneVec>>

\* zero_all has just run on a group whose three apply flags are on
ZeroedAll ==
    /\ last.op = "zero_all" /\ last.ret = "FINISHED"
    /\ AllFlags(transform_groups[last.g + 1])

NoDuplicateItems ==
    \A g \in 1..Len(transform_groups) :
        \A j, k \in 1..Len(transform_groups[g].items) :
            j # k => transform_groups[g].items[j].object_name
                         # transform_groups[g].items[k].object_name

\* C16: item_add adds all selected objects without duplicates: after item_add
\* on a valid group every selected object's name is the object_name of exactly
\* one item of the group, the objects already present are skipped, added +
\* skipped is the number of selected objects, and the existing items keep
\* their place and their stored data; in every state no two items of one group
\* have the same object_name.
C16_ItemAddNoDuplicates ==
    /\ []NoDuplicateItems
    /\ [][Ran({"item_add"}) =>
              LET before == transform_groups[last'.g + 1].items
                  after == transform_groups'[last'.g + 1].items
                  present == {o \in selected :
                                 \E k \in 1..Len(before) :
                                     before[k].object_name = objects[o].name}
              IN  /\ \A o \in selected :
                         Cardinality({k \in 1..Len(after) :
                                          after[k].object_name = objects[o].name}) = 1
                  /\ last'.skipped = Cardinality(present)
                  /\ last'.count = Cardinality(selected \ present)
                  /\ last'.count + last'.skipped = Cardinality(selected)
                  /\ Len(after) = Len(before) + last'.count
                  /\ IsPrefix(before, after)
                  /\ \A g \in 1..Len(transform_groups) :
                         g # last'.g + 1 => transform_groups'[g] = transform_groups[g]
      ]_vars

\* item_add has added an object to a group and skipped one that has a saved
\* item in it
C16_Witness ==
    /\ last.op = "item_add" /\ last.ret = "FINISHED"
    /\ last.count = 1 /\ last.skipped = 1
    /\ \E k \in 1..Len(transform_groups[last.g + 1].items) :
           LET item == transform_groups[last.g + 1].items[k] IN
           item.has_saved /\ item.object_name \in selected_names

\* C17: clean_missing removes all and only the missing objects of the group:
\* after clean_missing on a valid group its items are exactly the items whose
\* object_name is the name of a scene object, in their previous relative order
\* and with their stored data; the reported count is the number of items
\* removed; every other group is unchanged.
C17_CleanMissing ==
    [][Ran({"clean_missing"}) =>
           LET before == transform_groups[last'.g + 1]
               after == transform_groups'[last'.g + 1]
           IN  /\ after.items = SelectSeq(before.items,
                                          LAMBDA item : \E o \in ObjIds :
                                              /\ objects[o].exists
                                              /\ objects[o].name = item.object_name)
               /\ last'.count = Len(before.items) - Len(after.items)
               /\ after = [before EXCEPT !.items = after.items]
               /\ Len(transform_groups') = Len(transform_groups)
               /\ \A g \in 1..Len(transform_groups) :
                      g # last'.g + 1 => transform_groups'[g] = transform_groups[g]
               /\ objects' = objects
      ]_vars

\* clean_missing has removed one item of a group and kept a saved one
C17_Witness ==
    /\ last.op = "clean_missing" /\ last.ret = "FINISHED" /\ last.count = 1
    /\ Len(transform_groups[last.g + 1].items) = 1
    /\ transform_groups[last.g + 1].items[1].has_saved
    /\ InObjects(objects, transform_groups[last.g + 1].items[1].object_name)

\* the snapshot an item holds: its stored vectors and its has_saved flag
Snapshot(item) == <<item.location, item.rotation, item.scale, item.has_saved>>

\* this step repeats the restore operator call the last step made
RestoreRepeated ==
    /\ last.op \in RestoreOps /\ last.ret = "FINISHED"
    /\ last'.op = last.op /\ last'.g = last.g /\ last'.ret = "FINISHED"

\* C20: zero and restore never modify a snapshot: they leave every item's
\* object_name, stored location, rotation and scale and has_saved flag as they
\* are; has_saved never goes from true back to false while the item exists; a
\* restore repeated right away leaves the objects as the first one left them
\* and reports the same count; the stored vectors of an item change only by a
\* save operator that covers it.
C20_SnapshotsKept ==
    [][/\ Ran(ZeroOps \cup RestoreOps) => transform_groups' = transform_groups
       /\ last'.op \notin RemoveOps =>
              \A p \in ItemsOf(transform_groups) :
                  LET item == ItemAt(transform_groups, p)
                      next == ItemAt(transform_groups', p)
                  IN  /\ next.object_name = item.object_name
                      /\ item.has_saved => next.has_saved
                      /\ Snapshot(next) # Snapshot(item) =>
                             /\ Ran(SaveOps)
                             /\ p \in InScope(transform_groups, selected_names, last')
       /\ RestoreRepeated => objects' = objects /\ last'.count = last.count
      ]_vars

\* restore_all has run twice in a row on a group whose saved item "a" the user
\* had moved away from its saved transform: the object is back, the item as it was
C20_Witness ==
    /\ ops = 3 /\ last.op = "restore_all" /\ last.ret = "FINISHED" /\ last.count = 2
    /\ transform_groups[last.g + 1].items[1] = SaveItem([o \in ObjIds |-> Moved(NewObject("a"))],
                                                        TransformData("a"))
    /\ TransformOf(objects, 1) = transform_groups[last.g + 1].items[1].saved_from
    /\ selected = {1}

\* the operators that take a group_index, and those of them that take an
\* item_index too
GroupIndexOps == {"group_remove", "group_toggle", "item_add", "item_remove", "clean_missing",
                  "save_all", "zero_all", "restore_all", "save_selected", "zero_selected",
                  "restore_selected", "select", "select_group"}
ItemIndexOps == {"item_remove", "select"}

\* the call of this step has a group index out of range
BadGroupIndex ==
    /\ last'.op \in GroupIndexOps
    /\ (last'.g < 0 \/ last'.g >= Len(transform_groups))

\* the call of this step has a group index in range and an item index out of range
BadItemIndex ==
    /\ last'.op \in ItemIndexOps
    /\ 0 <= last'.g /\ last'.g < Len(transform_groups)
    /\ (last'.i < 0 \/ last'.i >= Len(transform_groups[last'.g + 1].items))

\* C21: an out-of-range index changes nothing: an operator called with a group
\* index (or, for item_remove and select, an item index) that is negative or
\* not smaller than the number of groups (items) leaves the groups, the items,
\* the objects' transforms and the selection as they are; it returns CANCELLED
\* unless it is group_remove or group_toggle, or item_remove with a bad item
\* index.
C21_BadIndexChangesNothing ==
    [][/\ BadGroupIndex \/ BadItemIndex =>
              /\ transform_groups' = transform_groups
              /\ objects' = objects
              /\ selected' = selected
              /\ active' = active
       /\ BadGroupIndex /\ last'.op \notin {"group_remove", "group_toggle"} =>
              last'.ret = "CANCELLED"
       /\ BadItemIndex /\ last'.op # "item_remove" => last'.ret = "CANCELLED"
      ]_vars

\* select has been called on an existing group with the item index one past
\* its last item, with an object selected: CANCELLED
C21_Witness ==
    /\ last.op = "select" /\ last.ret = "CANCELLED"
    /\ 0 <= last.g /\ last.g < Len(transform_groups)
    /\ Len(transform_groups[last.g + 1].items) > 0
    /\ last.i = Len(transform_groups[last.g + 1].items)
    /\ selected # {}

(***************************************************************************)
(* Transform Saver: sessions of the save, zero and restore operators under *)
(* every setting of the apply flags                                        *)
(***************************************************************************)
\* the item of object "a" of the second group: saved while "a" was where it was
\* created, before the user moved it
SavedAtCreation == SaveItem([o \in ObjIds |-> NewObject("a")], TransformData("a"))

\* the session of TSSaved with the second group saved earlier, "a" selected,
\* and any setting of the two groups' apply flags
FlagsInit ==
    /\ objects = [o \in ObjIds |-> IF o = 1 THEN Moved(NewObject("a"))
                                   ELSE IF o = 2 THEN NewObject("b") ELSE NoObject]
    /\ selected = {1}
    /\ \E f \in [{1, 2} -> [{"apply_location", "apply_rotation", "apply_scale"} -> BOOLEAN]] :
           transform_groups =
               <<[TransformGroup EXCEPT
                      !.items = <<SaveItem(objects, TransformData("a")),
                                  SaveItem(objects, TransformData("b"))>>,
                      !.apply_location = f[1]["apply_location"],
                      !.apply_rotation = f[1]["apply_rotation"],
                      !.apply_scale = f[1]["apply_scale"]],
                 [TransformGroup EXCEPT
                      !.items = <<SavedAtCreation>>,
                      !.apply_location = f[2]["apply_location"],
                      !.apply_rotation = f[2]["apply_rotation"],
                      !.apply_scale = f[2]["apply_scale"]]>>
    /\ active = None
    /\ last = NoCall
    /\ ops = 0

FlagsNext ==
    \/ \E g \in IndexArgs(transform_groups) : save_all(g)
    \/ \E g \in IndexArgs(transform_groups) : zero_all(g)
    \/ \E g \in IndexArgs(transform_groups) : restore_all(g)
    \/ \E g \in IndexArgs(transform_groups) : save_selected(g)
    \/ \E g \in IndexArgs(transform_groups) : zero_selected(g)
    \/ \E g \in IndexArgs(transform_groups) : restore_selected(g)
    \/ zero_selected_global
    \/ restore_selected_global
    \/ \E g \in IndexArgs(transform_groups),
          flag \in {"apply_location", "apply_rotation", "apply_scale"} :
           UserSetApply(g, flag)

\* the components of a transform, with the group's flag, the item's field and
\* the reset value of each
Components == {"location", "rotation_euler", "scale"}
FlagOf(group, c) == CASE c = "location" -> group.apply_location
                      [] c = "rotation_euler" -> group.apply_rotation
                      [] c = "scale" -> group.apply_scale
StoredOf(item, c) == CASE c = "location" -> item.location
                       [] c = "rotation_euler" -> item.rotation
                       [] c = "scale" -> item.scale
ResetOf(c) == IF c = "scale" THEN OneVec ELSE ZeroVec
ComponentOf(obj, c) == CASE c = "location" -> obj.location
                         [] c = "rotation_euler" -> obj.rotation_euler
                         [] c = "scale" -> obj.scale

\* the items through which the operator call of this step writes component c
\* of object o: in the call's scope, with saved data, naming o, in a group
\* whose flag of c is on
Writers(o, c) ==
    {p \in InScope(transform_groups, selected_names, last') :
        /\ ItemAt(transform_groups, p).has_saved
        /\ objects[o].exists
        /\ ItemAt(transform_groups, p).object_name = objects[o].name
        /\ FlagOf(transform_groups[p[1]], c)}

\* the last of the positions ps in the order of the loops
LastOf(ps) == CHOOSE p \in ps : \A q \in ps : q[1] < p[1] \/ (q[1] = p[1] /\ q[2] <= p[2])

\* C18: the apply flags restrict zero and restore to the enabled components: a
\* zero or restore operator writes the location only through a group whose
\* apply_location is on, the rotation only with apply_rotation and the scale
\* only with apply_scale, and leaves every other component of every object as
\* it is; an item with saved data whose object exists is counted whatever the
\* flags are, all three off included; the save operators ignore the flags and
\* store all three components.
C18_ApplyFlags ==
    [][/\ Ran(ZeroOps \cup RestoreOps) =>
              /\ \A o \in ObjIds, c \in Components :
                     IF Writers(o, c) = {}
                     THEN ComponentOf(objects'[o], c) = ComponentOf(objects[o], c)
                     ELSE ComponentOf(objects'[o], c) =
                              (IF last'.op \in ZeroOps THEN ResetOf(c)
                               ELSE StoredOf(ItemAt(transform_groups, LastOf(Writers(o, c))), c))
              /\ last'.count =
                     Cardinality({p \in InScope(transform_groups, selected_names, last') :
                                      /\ ItemAt(transform_groups, p).has_saved
                                      /\ InObjects(objects,
                                                   ItemAt(transform_groups, p).object_name)})
       /\ Ran(SaveOps) =>
              \A p \in InScope(transform_groups, selected_names, last') :
                  LET item == ItemAt(transform_groups, p)
                      saved == ItemAt(transform_groups', p)
                  IN  InObjects(objects, item.object_name) =>
                          /\ saved.has_saved
                          /\ \A c \in Components :
                                 StoredOf(saved, c) =
                                     ComponentOf(objects[GetObject(objects, item.object_name)], c)
      ]_vars

\* zero_all has counted both items of a group whose three flags are off, and
\* the moved object "a" is where it was
C18_Witness ==
    /\ last.op = "zero_all" /\ last.ret = "FINISHED" /\ last.count = 2
    /\ \A c \in Components : ~FlagOf(transform_groups[last.g + 1], c)
    /\ TransformOf(objects, 1) = TransformOf([o \in ObjIds |-> Moved(NewObject("a"))], 1)

\* the groups (1-based) that hold an item with saved data for the object name n
SavedIn(n) ==
    {g \in 1..Len(transform_groups) :
        \E k \in 1..Len(transform_groups[g].items) :
            /\ transform_groups[g].items[k].object_name = n
            /\ transform_groups[g].items[k].has_saved}

\* the item of group g for the object name n
ItemFor(g, n) ==
    transform_groups[g].items[CHOOSE k \in 1..Len(transform_groups[g].items) :
                                  transform_groups[g].items[k].object_name = n]

\* the largest of a non-empty set of numbers
Max(S) == CHOOSE m \in S : \A x \in S : x <= m

\* C22: restore_selected_global applies the groups in list order: for a
\* selected object, every item of its name that has saved data is applied
\* with the flags of its own group, so each component ends with the value
\* stored in the last group whose item has saved data and whose flag of the
\* component is on, and is left alone when there is no such group; objects
\* that are not selected are left alone; the count is the number of items
\* applied, not that of the objects.
C22_GlobalRestoreInOrder ==
    [][Ran({"restore_selected_global"}) =>
           /\ \A o \in ObjIds : \A c \in Components :
                  LET on == IF o \in selected
                            THEN {g \in SavedIn(objects[o].name) :
                                      FlagOf(transform_groups[g], c)}
                            ELSE {}
                  IN  ComponentOf(objects'[o], c) =
                          (IF on = {} THEN ComponentOf(objects[o], c)
                           ELSE StoredOf(ItemFor(Max(on), objects[o].name), c))
           /\ LET applied(o) == Cardinality(SavedIn(objects[o].name))
                  sum[S \in SUBSET selected] ==
                      IF S = {} THEN 0
                      ELSE LET o == CHOOSE x \in S : TRUE IN applied(o) + sum[S \ {o}]
              IN  last'.count = sum[selected]
      ]_vars

\* restore_selected_global has applied the two items of the one selected
\* object "a": its location is that of the second group's item, its scale, with
\* the second group's apply_scale off, that of the first group's item
C22_Witness ==
    /\ last.op = "restore_selected_global" /\ last.count = 2
    /\ selected = {1}
    /\ Len(transform_groups) = 2
    /\ transform_groups[2].apply_location /\ ~transform_groups[2].apply_scale
    /\ transform_groups[1].apply_location /\ transform_groups[1].apply_scale
    /\ ItemFor(1, "a").location # ItemFor(2, "a").location
    /\ ItemFor(1, "a").scale # ItemFor(2, "a").scale
    /\ objects[1].location = ItemFor(2, "a").location
    /\ objects[1].scale = ItemFor(1, "a").scale

(***************************************************************************)
(* Transform Saver: objects renamed after their snapshot was saved         *)
(***************************************************************************)
\* the session of TSSaved: the items "a" and "b" of the first group were saved
\* from the first and the second object; "a" is selected
StaleInit ==
    /\ TSSaved
    /\ active = None
    /\ last = NoCall
    /\ ops = 0

\* the user renames and moves objects and changes the selection, and calls the
\* zero and restore operators: no item is added, removed or saved again
StaleNext ==
    \/ \E g \in IndexArgs(transform_groups) : zero_all(g)
    \/ \E g \in IndexArgs(transform_groups) : restore_all(g)
    \/ \E g \in IndexArgs(transform_groups) : zero_selected(g)
    \/ \E g \in IndexArgs(transform_groups) : restore_selected(g)
    \/ zero_selected_global
    \/ restore_selected_global
    \/ \E o \in ObjIds : UserSelect(o)
    \/ \E o \in ObjIds, c \in {"location", "rotation_euler", "scale"}, v \in Vals :
           UserTransform(o, c, v)
    \/ \E o \in ObjIds, n \in Names : UserRename(o, n)

\* the item of the first group that was saved from object o
SavedItemOf(o) == transform_groups[1].items[o]

\* object o has been renamed since its item was saved, to a name no item bears
RenamedAway(o) ==
    /\ objects[o].name # SavedItemOf(o).object_name
    /\ \A p \in ItemsOf(transform_groups) :
           ItemAt(transform_groups, p).object_name # objects[o].name

\* C23: a snapshot is bound to the object's name, not to the object.  After the
\* object of a saved item was renamed, zero and restore through the item no
\* longer change that object; while no object bears the stored name the item
\* is counted as missing and by no zero or restore operator; once another
\* object bears the stored name, restore_all writes the saved vectors to that
\* other object.
C23_BoundToName ==
    [][\A o \in {1, 2} :
           LET item == SavedItemOf(o)
               bearer == {j \in ObjIds : objects[j].exists /\ objects[j].name = item.object_name}
           IN  /\ Ran(ZeroOps \cup RestoreOps) /\ RenamedAway(o) => objects'[o] = objects[o]
               /\ bearer = {} =>
                      /\ count_missing_objects(objects, transform_groups[1])
                             = Cardinality({k \in 1..2 :
                                   \A j \in ObjIds :
                                       objects[j].exists =>
                                           objects[j].name # SavedItemOf(k).object_name})
                      /\ count_missing_objects(objects, transform_groups[1]) >= 1
                      /\ Ran({"zero_all", "restore_all"}) /\ last'.g = 0 =>
                             last'.count = 2 - count_missing_objects(objects, transform_groups[1])
               /\ Ran({"restore_all"}) /\ last'.g = 0 =>
                      \A j \in bearer : \A c \in Components :
                          FlagOf(transform_groups[1], c) =>
                              ComponentOf(objects'[j], c) = StoredOf(item, c)
      ]_vars

\* the first object was renamed to "c" and the second to "a", and restore_all
\* has written the vectors saved from the first object to the second
C23_Witness ==
    /\ last.op = "restore_all" /\ last.ret = "FINISHED" /\ last.g = 0 /\ last.count = 1
    /\ objects[1].name = "c" /\ objects[2].name = "a"
    /\ SavedItemOf(1).object_name = "a"
    /\ SavedItemOf(1).saved_from = TransformOf([o \in ObjIds |-> Moved(NewObject("a"))], 1)
    /\ TransformOf(objects, 2) = SavedItemOf(1).saved_from
    /\ count_missing_objects(objects, transform_groups[1]) = 1

(***************************************************************************)
(* Transform Saver: save, zero, restore in a row                           *)
(***************************************************************************)
\* the session of TSSeeded with "a" or both objects selected and any setting
\* of the two groups' apply flags: nothing is saved yet
TripInit ==
    /\ objects = [o \in ObjIds |-> IF o = 1 THEN Moved(NewObject("a"))
                                   ELSE IF o = 2 THEN NewObject("b") ELSE NoObject]
    /\ selected \in {{1}, {1, 2}}
    /\ \E f \in [{1, 2} -> [{"apply_location", "apply_rotation", "apply_scale"} -> BOOLEAN]] :
           transform_groups =
               <<[TransformGroup EXCEPT
                      !.items = <<TransformData("a"), TransformData("b")>>,
                      !.apply_location = f[1]["apply_location"],
                      !.apply_rotation = f[1]["apply_rotation"],
                      !.apply_scale = f[1]["apply_scale"]],
                 [TransformGroup EXCEPT
                      !.items = <<TransformData("a")>>,
                      !.apply_location = f[2]["apply_location"],
                      !.apply_rotation = f[2]["apply_rotation"],
                      !.apply_scale = f[2]["apply_scale"]]>>
    /\ active = None
    /\ last = NoCall
    /\ ops = 0

\* the second step of the session was a zero operator and this, its third, is
\* a restore operator: an item that has saved data now was saved by the first
\* step, and nothing but the zero has run since
ZeroThenRestore ==
    /\ ops = 2
    /\ last.op \in ZeroOps /\ last.ret = "FINISHED"
    /\ Ran(RestoreOps)

\* C19: save, zero, restore is a round trip for any fixed flag setting: when a
\* save of an item is followed by a zero operator and then by a restore
\* operator that covers the item, with the same apply flags in force for both
\* and nothing else changing the object in between, then the item's object has
\* the location, rotation and scale it had at the time of the save, whichever
\* flags are on.
C19_RoundTrip ==
    [][ZeroThenRestore =>
           \A p \in InScope(transform_groups, selected_names, last') :
               LET item == ItemAt(transform_groups, p) IN
               item.has_saved /\ InObjects(objects, item.object_name) =>
                   TransformOf(objects', GetObject(objects, item.object_name))
                       = item.saved_from
      ]_vars

\* a session of three operators ending in restore_all on the group of "a" and
\* "b" with apply_location on and apply_scale off: both items saved and
\* counted, and the moved object "a" where it was at the save
C19_Witness ==
    /\ ops = 3 /\ last.op = "restore_all" /\ last.ret = "FINISHED" /\ last.count = 2
    /\ transform_groups[last.g + 1].apply_location
    /\ ~transform_groups[last.g + 1].apply_scale
    /\ transform_groups[last.g + 1].items[1].has_saved
    /\ transform_groups[last.g + 1].items[1].saved_from
           = TransformOf([o \in ObjIds |-> Moved(NewObject("a"))], 1)
    /\ TransformOf(objects, 1) = transform_groups[last.g + 1].items[1].saved_from

(***************************************************************************)
(* Export By Name: data.  A string is the sequence of its code points, so  *)
(* that sorting, sanitizing and path numbering are computed as Python      *)
(* computes them.                                                          *)
(***************************************************************************)
\* the scene's objects, in view-layer order
ExObjIds == {1, 2, 3}
\* bpy.data.collections: 1 is the parent of 2
CollIds == {1, 2}

\* obj.name: "a b", "a_b" and "B" (unique, as the host keeps object names)
ExName(o) == IF o = 1 THEN <<97, 32, 98>>
             ELSE IF o = 2 THEN <<97, 95, 98>> ELSE <<66>>

\* coll.objects and coll.children: object 3 is linked into both collections
collections ==
    [c \in CollIds |-> IF c = 1 THEN [name |-> <<67>>, objects |-> <<1, 3>>, children |-> <<2>>]
                       ELSE [name |-> <<68>>, objects |-> <<3, 2>>, children |-> <<>>]]

\* bpy.context.scene.name: "Scene"
SceneName == <<83, 99, 101, 110, 101>>

\* Python's str < str: lexicographic on code points, a proper prefix first
RECURSIVE StrLess(_, _)
StrLess(s, t) ==
    IF t = <<>> THEN FALSE
    ELSE IF s = <<>> THEN TRUE
    ELSE IF Head(s) # Head(t) THEN Head(s) < Head(t)
    ELSE StrLess(Tail(s), Tail(t))

\* sorted(keys): ascending by StrLess
RECURSIVE Sorted(_)
Sorted(keys) ==
    IF keys = {} THEN <<>>
    ELSE LET m == CHOOSE k \in keys : \A x \in keys \ {k} : StrLess(k, x)
         IN  <<m>> \o Sorted(keys \ {m})

\* the characters the default name_sanitize_regex keeps: A-Z a-z 0-9 _ . -
Kept(c) == c \in (65..90) \cup (97..122) \cup (48..57) \cup {95, 46, 45}

\* re.sub(pattern, "_", name): every maximal run of other characters becomes "_"
RECURSIVE ReSub(_, _)
ReSub(name, in_run) ==
    IF name = <<>> THEN <<>>
    ELSE IF Kept(Head(name)) THEN <<Head(name)>> \o ReSub(Tail(name), FALSE)
    ELSE IF in_run THEN ReSub(Tail(name), TRUE)
    ELSE <<95>> \o ReSub(Tail(name), TRUE)

\* str.lstrip("._-")
RECURSIVE LStrip(_)
LStrip(s) == IF s # <<>> /\ Head(s) \in {46, 95, 45} THEN LStrip(Tail(s)) ELSE s

\* str.rstrip("._-")
RECURSIVE RStrip(_)
RStrip(s) == IF s # <<>> /\ s[Len(s)] \in {46, 95, 45}
             THEN RStrip(SubSeq(s, 1, Len(s) - 1)) ELSE s

\* sanitize(name) with the default pattern; "untitled" when nothing is left
sanitize(name) ==
    LET s == RStrip(LStrip(ReSub(name, FALSE)))
    IN  IF s = <<>> THEN <<117, 110, 116, 105, 116, 108, 101, 100>> ELSE s

\* iter_collection_objects(coll, recursive): the objects of coll, then those of
\* its children, depth first
RECURSIVE iter_collection_objects(_, _)
RECURSIVE IterChildren(_, _)
IterChildren(children, k) ==
    IF k > Len(children) THEN <<>>
    ELSE iter_collection_objects(children[k], TRUE) \o IterChildren(children, k + 1)

iter_collection_objects(coll, recursive) ==
    collections[coll].objects
        \o (IF recursive THEN IterChildren(collections[coll].children, 1) ELSE <<>>)

\* context.selected_objects / context.view_layer.objects of the export scene
ex_selected_objects(sel) == SelectSeq(<<1, 2, 3>>, LAMBDA o : o \in sel)
view_layer_objects == <<1, 2, 3>>

\* mesh_and_visible_filter(objs)
mesh_and_visible_filter(objs, list, visible_only) ==
    SelectSeq(list, LAMBDA o : objs[o].type = "MESH" /\ (visible_only => objs[o].visible))

\* uniq = {o.name: o for o in objs}: the last object of each name
Uniq(objs, list) ==
    [n \in {objs[list[k]].name : k \in 1..Len(list)} |->
        list[CHOOSE k \in 1..Len(list) :
                 /\ objs[list[k]].name = n
                 /\ \A j \in (k + 1)..Len(list) : objs[list[j]].name # n]]

\* gather_targets without the dict: every listed object, in list order
gather_targets_listed(objs, sel, scope, collection, recursive, visible_only) ==
    IF scope = "SELECTED" THEN mesh_and_visible_filter(objs, ex_selected_objects(sel), visible_only)
    ELSE IF scope = "VISIBLE"
    THEN SelectSeq(view_layer_objects, LAMBDA o : objs[o].type = "MESH" /\ objs[o].visible)
    ELSE IF collection = None THEN <<>>
    ELSE mesh_and_visible_filter(objs, iter_collection_objects(collection, recursive),
                                 visible_only)

\* gather_targets that honours visible_only in no scope
gather_targets_any_visibility(objs, sel, scope, collection, recursive, visible_only) ==
    LET list == gather_targets_listed(objs, sel, scope, collection, recursive, FALSE)
        uniq == Uniq(objs, list)
        keys == Sorted(DOMAIN uniq)
    IN  [k \in 1..Len(keys) |-> uniq[keys[k]]]

\* gather_targets(context, scope, collection, recursive, visible_only)
gather_targets(objs, sel, scope, collection, recursive, visible_only) ==
    LET list == gather_targets_listed(objs, sel, scope, collection, recursive, visible_only)
        uniq == Uniq(objs, list)
        keys == Sorted(DOMAIN uniq)
    IN  [k \in 1..Len(keys) |-> uniq[keys[k]]]

\* EXT_BY_FMT.get(fmt_key, "dat"): "fbx", "obj", "dat"
EXT_BY_FMT(fmt_key) ==
    IF fmt_key = "FBX" THEN <<102, 98, 120>>
    ELSE IF fmt_key = "OBJ" THEN <<111, 98, 106>>
    ELSE <<100, 97, 116>>

\* a filename template is the sequence of its parts: replacement fields and
\* literal text
Field(f) == [field |-> f, lit |-> <<>>]
Lit(text) == [field |-> "", lit |-> text]

\* the templates "{obj}" (the default), "{scene}" and "{name}"
Templates == {<<Field("obj")>>, <<Field("scene")>>, <<Field("name")>>}

\* the keys of resolve_filename's tokens dict
TokenNames == {"obj", "col", "scene", "date", "time", "ext"}

\* cols[0].name of obj.users_collection, "" when the object is in no collection
first_collection_name(o) ==
    IF \E c \in CollIds : \E k \in 1..Len(collections[c].objects) : collections[c].objects[k] = o
    THEN collections[CHOOSE c \in CollIds :
                         /\ \E k \in 1..Len(collections[c].objects) : collections[c].objects[k] = o
                         /\ \A d \in CollIds :
                                (\E k \in 1..Len(collections[d].objects) :
                                     collections[d].objects[k] = o) => c <= d].name
    ELSE <<>>

\* the tokens dict of resolve_filename; the clock reads 2026-01-01 00:00:00
Tokens(objs, o, fmt_key, col_override) ==
    [t \in TokenNames |->
        CASE t = "obj" -> sanitize(objs[o].name)
          [] t = "col" -> sanitize(IF col_override # None THEN collections[col_override].name
                                   ELSE first_collection_name(o))
          [] t = "scene" -> sanitize(SceneName)
          [] t = "date" -> <<50, 48, 50, 54, 48, 49, 48, 49>>
          [] t = "time" -> <<48, 48, 48, 48, 48, 48>>
          [] t = "ext" -> EXT_BY_FMT(fmt_key)]

\* template.format(**tokens): the parts joined, each field replaced by its token
RECURSIVE Format(_, _)
Format(template, tokens) ==
    IF template = <<>> THEN <<>>
    ELSE (IF Head(template).field = "" THEN Head(template).lit
          ELSE tokens[Head(template).field]) \o Format(Tail(template), tokens)

\* template.format raises KeyError for a field that is no token
FormatRaises(template) ==
    \E k \in 1..Len(template) : template[k].field # "" /\ template[k].field \notin TokenNames

\* os.path.splitext: the position of the dot that starts the extension, 0 when
\* there is none (the dot lies in the last path component, and the leading dots
\* of that component do not start an extension)
ExtIndex(p) ==
    LET seps == {i \in 1..Len(p) : p[i] = 47}
        sepIndex == IF seps = {} THEN 0 ELSE CHOOSE i \in seps : \A j \in seps : j <= i
        dots == {i \in 1..Len(p) : p[i] = 46}
        dotIndex == IF dots = {} THEN 0 ELSE CHOOSE i \in dots : \A j \in dots : j <= i
    IN  IF dotIndex > sepIndex /\ \E j \in (sepIndex + 1)..(dotIndex - 1) : p[j] # 46
        THEN dotIndex ELSE 0

splitext(p) ==
    IF ExtIndex(p) = 0 THEN [root |-> p, ext |-> <<>>]
    ELSE [root |-> SubSeq(p, 1, ExtIndex(p) - 1), ext |-> SubSeq(p, ExtIndex(p), Len(p))]

\* resolve_filename(template, obj, fmt_key, regex, col_override) where format succeeds
resolve_filename(template, objs, o, fmt_key, col_override) ==
    LET tokens == Tokens(objs, o, fmt_key, col_override)
        fname == Format(template, tokens)
    IN  IF splitext(fname).ext = <<>> THEN fname \o <<46>> \o tokens["ext"] ELSE fname

\* f"{i:03d}": the decimal digits of i, zero-padded to three
RECURSIVE Digits(_)
Digits(i) == IF i < 10 THEN <<48 + i>> ELSE Digits(i \div 10) \o <<48 + (i % 10)>>

Pad3(i) == IF i < 10 THEN <<48, 48>> \o Digits(i)
           ELSE IF i < 100 THEN <<48>> \o Digits(i)
           ELSE Digits(i)

\* the i-th path unique_path tries: the path itself, then root.001.ext, root.002.ext, ...
Candidate(path, i) ==
    IF i = 0 THEN path
    ELSE splitext(path).root \o <<46>> \o Pad3(i) \o splitext(path).ext

(***************************************************************************)
(* Export By Name: EBN_OT_export.execute.  The operator runs on the host's *)
(* main thread from its call to its return; its loops are modelled step by *)
(* step, and nothing else runs between the steps.                          *)
(***************************************************************************)
\* export operator runs per behaviour
MaxRuns == 1

\* the keyword arguments of the first bpy.ops.wm.obj_export call
ObjKw == {"filepath", "export_selected_objects", "export_uv", "export_normals",
          "export_materials", "path_mode", "apply_modifiers"}

\* the keys the retry loop drops, in its order
RetryKeys == <<"path_mode", "apply_modifiers", "export_materials", "export_normals",
               "export_uv">>

\* the lines of the log
Header == [status |-> "HEADER", obj |-> None, path |-> <<>>]
Line(status, o, path) == [status |-> status, obj |-> o, path |-> path]

\* no operator call yet
NoRun == [pc |-> "idle", ret |-> "", targets |-> <<>>, k |-> 0,
          prev_sel |-> {}, prev_active |-> None, before |-> [selected |-> {}, active |-> None],
          ok_count |-> 0, ng_count |-> 0, log_lines |-> <<>>,
          fname |-> <<>>, i |-> 0, out_path |-> <<>>,
          kw |-> {}, j |-> 0, calls |-> 0, raised |-> FALSE,
          op |-> "", attempts |-> <<>>, log_before |-> <<>>, cursor_before |-> 0]

\* the operator returns ret before its loop
Return(ret) == [NoRun EXCEPT !.ret = ret]

\* execute up to the first iteration: the early returns, gather_targets and the
\* entry of preserve_selection
ExportBegin ==
    /\ ex.pc = "idle"
    /\ ops < MaxRuns
    /\ ops' = ops + 1
    /\ LET targets == gather_targets(scene_objs, ex_selected, props.scope, props.collection,
                                     props.recursive, props.visible_only)
       IN  ex' = IF ~props.export_dir THEN Return("CANCELLED")
                 ELSE IF props.scope = "COLLECTION" /\ props.collection = None
                 THEN Return("CANCELLED")
                 ELSE IF targets = <<>> THEN Return("CANCELLED")
                 ELSE [NoRun EXCEPT !.pc = "select", !.targets = targets, !.k = 1,
                                    !.op = "export", !.log_before = log_text,
                                    !.cursor_before = log_cursor,
                                    !.prev_sel = ex_selected, !.prev_active = ex_active,
                                    !.before = [selected |-> ex_selected, active |-> ex_active]]
    /\ UNCHANGED <<scene_objs, ex_selected, ex_active, props, exporters, files, log_text, log_cursor>>
    /\ UNCHANGED <<tsVars, rnVars>>

\* obj.select_set(True) for the objects objs after select_all(action='DESELECT'):
\* every object, selectable or not, ends up selected
select_set_any(objs) == objs

\* obj.select_set(True) for the objects objs after select_all(action='DESELECT'):
\* the host selects an object only when it is selectable, which an object hidden
\* in the view layer is not; for a hidden object the call returns and nothing
\* is selected
select_set(objs) == {o \in objs : scene_objs[o].visible}

\* the head of the loop body: select the target alone, make it active, and
\* resolve its file name; a KeyError of template.format leaves the loop
ExportSelect ==
    /\ ex.pc = "select"
    /\ LET obj == ex.targets[ex.k]
           col_name == IF props.scope = "COLLECTION" THEN props.collection ELSE None
       IN  /\ ex_selected' = select_set({obj})
           /\ ex_active' = obj
           /\ ex' = IF FormatRaises(props.filename_template)
                    THEN [ex EXCEPT !.pc = "finally", !.raised = TRUE]
                    ELSE [ex EXCEPT !.pc = "unique", !.i = 0, !.calls = 0,
                                    !.fname = resolve_filename(props.filename_template,
                                                  scene_objs, obj, props.export_format,
                                                  col_name)]
    /\ UNCHANGED <<scene_objs, props, exporters, files, log_text, log_cursor, ops>>
    /\ UNCHANGED <<tsVars, rnVars>>

\* i += 1 of unique_path, stuck
NextIndex_stuck(i) == i

\* i += 1 of unique_path (its first numbered path is root.001.ext)
NextIndex(i) == i + 1

\* unique_path without its os.path.exists tests: the path as it is given
UniquePath_unchecked ==
    /\ ex.pc = "unique"
    /\ ex' = [ex EXCEPT !.pc = "export", !.out_path = ex.fname]
    /\ UNCHANGED <<scene_objs, ex_selected, ex_active, props, exporters, files, log_text, log_cursor, ops>>
    /\ UNCHANGED <<tsVars, rnVars>>

\* one test of unique_path: os.path.exists of the path, then of the numbered paths
UniquePath ==
    /\ ex.pc = "unique"
    /\ ex' = IF Candidate(ex.fname, ex.i) \notin files
             THEN [ex EXCEPT !.pc = "export", !.out_path = Candidate(ex.fname, ex.i)]
             ELSE [ex EXCEPT !.i = NextIndex(ex.i)]
    /\ UNCHANGED <<scene_objs, ex_selected, ex_active, props, exporters, files, log_text, log_cursor, ops>>
    /\ UNCHANGED <<tsVars, rnVars>>

\* the end of the loop body: the log line, the tally, and the next target
Done(e, success) ==
    [e EXCEPT !.log_lines = Append(@, IF success THEN Line("OK", e.targets[e.k], e.out_path)
                                      ELSE Line("NG", e.targets[e.k], <<>>)),
              !.ok_count = IF success THEN @ + 1 ELSE @,
              !.ng_count = IF success THEN @ ELSE @ + 1,
              !.k = @ + 1,
              !.pc = IF e.k + 1 > Len(e.targets) THEN "finally" ELSE "select"]

\* an exporter call that succeeds writes its file at the requested path
Written(success) == IF success THEN files \cup {ex.out_path} ELSE files

\* what an exporter call may do: return, raise TypeError, raise something else
Outcomes == {"ok", "TypeError", "Exception"}

\* ensure_exporter_available(fmt_key) returns; `exporters` holds the operators
\* the host has once the add-on of the format has been enabled where it can be
ensure_exporter_available(fmt_key) ==
    IF fmt_key = "OBJ"
    THEN "wm.obj_export" \in exporters \/ "export_scene.obj" \in exporters
    ELSE "export_scene.fbx" \in exporters

\* do_export(fmt, out_path, apply_modifiers) up to its first exporter call, and
\* the except clause of the loop body
DoExport ==
    /\ ex.pc = "export"
    /\ \E outcome \in Outcomes :
          LET success == outcome = "ok"
              retry == /\ props.export_format = "OBJ"
                       /\ "wm.obj_export" \in exporters
                       /\ outcome = "TypeError"
          IN  IF ~ensure_exporter_available(props.export_format)
              THEN ex' = Done(ex, FALSE) /\ files' = files
              ELSE IF retry
              THEN /\ ex' = [ex EXCEPT !.pc = "obj_retry", !.kw = ObjKw, !.j = 1, !.calls = 1]
                   /\ files' = files
              ELSE /\ ex' = Done([ex EXCEPT !.calls = 1], success)
                   /\ files' = Written(success)
    /\ UNCHANGED <<scene_objs, ex_selected, ex_active, props, exporters, log_text, log_cursor, ops>>
    /\ UNCHANGED <<tsVars, rnVars>>

\* the retry loop makes no progress through its keys
NextKey_stuck(j) == j

\* the for statement of the retry loop takes its next key
NextKey(j) == j + 1

\* one iteration of the OBJ retry loop (drop a key, call again), or its else
\* clause (the call with filepath and export_selected_objects alone)
ObjRetry ==
    /\ ex.pc = "obj_retry"
    /\ \E outcome \in Outcomes :
          LET success == outcome = "ok"
              called == [ex EXCEPT !.calls = @ + 1]
          IN  IF ex.j <= Len(RetryKeys)
              THEN IF RetryKeys[ex.j] \notin ex.kw
                   THEN ex' = [ex EXCEPT !.j = NextKey(@)] /\ files' = files
                   ELSE IF outcome = "TypeError"
                   THEN /\ ex' = [called EXCEPT !.kw = @ \ {RetryKeys[ex.j]}, !.j = NextKey(@)]
                        /\ files' = files
                   ELSE /\ ex' = Done([called EXCEPT !.kw = @ \ {RetryKeys[ex.j]}], success)
                        /\ files' = Written(success)
              ELSE /\ ex' = Done([called EXCEPT !.kw = {"filepath", "export_selected_objects"}],
                                 success)
                   /\ files' = Written(success)
    /\ UNCHANGED <<scene_objs, ex_selected, ex_active, props, exporters, log_text, log_cursor, ops>>
    /\ UNCHANGED <<tsVars, rnVars>>

\* txt.write(text) that puts the lines after the last line wherever the cursor is
TextWrite_at_end(text, cursor, lines) ==
    [lines |-> text \o lines, cursor |-> Len(text) + Len(lines)]

\* txt.write(text): the host inserts the lines at the cursor of the text block
\* and moves the cursor to the end of the block
TextWrite(text, cursor, lines) ==
    [lines |-> SubSeq(text, 1, cursor) \o lines \o SubSeq(text, cursor + 1, Len(text)),
     cursor |-> Len(text) + Len(lines)]

\* txt.clear(): the block is empty, the cursor at its start
TextClear == [lines |-> <<>>, cursor |-> 0]

\* the last statement of preserve_selection: the active object is set back when
\* there was one
RestoredActive == IF ex.prev_active # None THEN ex.prev_active ELSE ex_active

\* the finally clause of preserve_selection, then either the exception leaves
\* execute or the log is written and the operator returns FINISHED
ExportFinally ==
    /\ ex.pc = "finally"
    /\ ex_selected' = select_set(ex.prev_sel)
    /\ ex_active' = RestoredActive
    /\ ex' = [ex EXCEPT !.pc = "idle", !.ret = IF ex.raised THEN "EXCEPTION" ELSE "FINISHED"]
    /\ LET written == TextWrite(TextClear.lines, TextClear.cursor, <<Header>> \o ex.log_lines)
       IN  IF ~ex.raised /\ props.log_to_text
           THEN log_text' = written.lines /\ log_cursor' = written.cursor
           ELSE UNCHANGED <<log_text, log_cursor>>
    /\ UNCHANGED <<scene_objs, props, exporters, files, ops>>
    /\ UNCHANGED <<tsVars, rnVars>>

\* the steps of a running export operator
ExportRun == ExportSelect \/ UniquePath \/ DoExport \/ ObjRetry \/ ExportFinally

(***************************************************************************)
(* Export By Name: specifications                                          *)
(***************************************************************************)
\* EBN_Props with its defaults; export_dir tells whether the directory is set
EBN_Props == [export_dir |-> TRUE, scope |-> "SELECTED", collection |-> None,
              recursive |-> TRUE, visible_only |-> FALSE, export_format |-> "FBX",
              filename_template |-> <<Field("obj")>>, log_to_text |-> TRUE]

\* a scene of two meshes and an empty, all visible
MeshScene == [o \in ExObjIds |-> [name |-> ExName(o),
                                  type |-> IF o = 3 THEN "EMPTY" ELSE "MESH",
                                  visible |-> TRUE]]

\* the export add-on registered and never run: the state of the other add-ons'
\* sessions
ExAtRest ==
    /\ scene_objs = MeshScene
    /\ ex_selected = {}
    /\ ex_active = None
    /\ props = EBN_Props
    /\ exporters = {}
    /\ files = {}
    /\ log_text = <<>>
    /\ log_cursor = 0
    /\ ex = NoRun

\* the Transform Saver registered and never used
TSAtRest == TSFresh /\ active = None /\ last = NoCall

\* the settings the export operator is run with: the scope (a collection
\* chosen or not), the format, the template and the log switch vary; an unset
\* export directory is tried with the defaults
ExportProps ==
    {[EBN_Props EXCEPT !.scope = sc[1], !.collection = sc[2], !.export_format = f,
                       !.filename_template = t, !.log_to_text = l] :
        sc \in {<<"SELECTED", None>>, <<"VISIBLE", None>>, <<"COLLECTION", None>>,
                <<"COLLECTION", 1>>},
        f \in {"FBX", "OBJ"}, t \in Templates, l \in BOOLEAN}
    \cup {[EBN_Props EXCEPT !.export_dir = FALSE]}

\* the hosts the operator runs in: with or without the exporter of the format,
\* the OBJ exporter the new or the legacy one
Hosts(fmt_key) ==
    IF fmt_key = "OBJ" THEN {{}, {"wm.obj_export"}, {"export_scene.obj"}}
    ELSE {{}, {"export_scene.fbx"}}

\* the export directory before the run: empty, or holding the file an earlier
\* run wrote for object 1
Directories(p) ==
    IF FormatRaises(p.filename_template) THEN {{}}
    ELSE {{}, {resolve_filename(p.filename_template, MeshScene, 1, p.export_format, None)}}

\* the log an earlier run left: its header and the line of a failed export
OldLog == <<Header, Line("NG", 1, <<>>)>>

ExInit ==
    /\ scene_objs = MeshScene
    /\ props \in ExportProps
    /\ ex_selected \in {{}, {1}, {1, 2}, {1, 2, 3}}
    /\ ex_active \in {None, 1}
    /\ exporters \in Hosts(props.export_format)
    /\ files \in Directories(props)
    /\ log_text = OldLog
    /\ log_cursor = Len(log_text)
    /\ ex = NoRun
    /\ ops = 0
    /\ TSAtRest

ExNext ==
    \/ ExportBegin
    \/ ExportSelect
    \/ UniquePath
    \/ DoExport
    \/ ObjRetry
    \/ ExportFinally

\* a call of gather_targets with the current scene and settings
Gather ==
    /\ ex.pc = "idle"
    /\ ops = 0
    /\ ops' = 1
    /\ ex' = [NoRun EXCEPT !.pc = "gathered",
                           !.targets = gather_targets(scene_objs, ex_selected, props.scope,
                                           props.collection, props.recursive,
                                           props.visible_only)]
    /\ UNCHANGED <<scene_objs, ex_selected, ex_active, props, exporters, files, log_text, log_cursor>>
    /\ UNCHANGED <<tsVars, rnVars>>

\* every scene of the three objects (each a mesh or not, visible or not, selected
\* or not) and every setting of the four properties gather_targets reads
GatherInit ==
    /\ \E type \in [ExObjIds -> {"MESH", "EMPTY"}], visible \in [ExObjIds -> BOOLEAN] :
           scene_objs = [o \in ExObjIds |->
                            [name |-> ExName(o), type |-> type[o], visible |-> visible[o]]]
    /\ ex_selected \in SUBSET ExObjIds
    /\ \E sc \in {"SELECTED", "VISIBLE", "COLLECTION"}, c \in {None} \cup CollIds,
          r \in BOOLEAN, v \in BOOLEAN :
           props = [EBN_Props EXCEPT !.scope = sc, !.collection = c, !.recursive = r,
                                     !.visible_only = v]
    /\ ex_active = None
    /\ exporters = {}
    /\ files = {}
    /\ log_text = <<>>
    /\ log_cursor = 0
    /\ ex = NoRun
    /\ ops = 0
    /\ TSAtRest

(***************************************************************************)
(* Export By Name: properties                                              *)
(***************************************************************************)
\* the collections whose objects the COLLECTION scope covers: the chosen one,
\* and with recursive set every collection below it
RECURSIVE Below(_, _)
Below(colls, depth) ==
    IF depth = 0 THEN colls
    ELSE Below(colls \cup UNION {{collections[c].children[k] :
                                     k \in 1..Len(collections[c].children)} : c \in colls},
               depth - 1)

Covered(collection, recursive) ==
    IF recursive THEN Below({collection}, Cardinality(CollIds)) ELSE {collection}

\* the objects the scope rule admits
Admitted ==
    LET mesh(o) == scene_objs[o].type = "MESH"
        shown(o) == props.visible_only => scene_objs[o].visible
        linked(o) == \E c \in Covered(props.collection, props.recursive) :
                         \E k \in 1..Len(collections[c].objects) : collections[c].objects[k] = o
    IN  CASE props.scope = "SELECTED" -> {o \in ex_selected : mesh(o) /\ shown(o)}
          [] props.scope = "VISIBLE" -> {o \in ExObjIds : mesh(o) /\ scene_objs[o].visible}
          [] props.scope = "COLLECTION" ->
                 IF props.collection = None THEN {}
                 ELSE {o \in ExObjIds : linked(o) /\ mesh(o) /\ shown(o)}

\* C4: the list gather_targets returns holds no object name twice, is sorted
\* ascending by object name, and holds exactly the mesh objects its scope
\* admits: the selected meshes (the visible ones when visible_only is set), the
\* visible meshes of the view layer whatever visible_only says, the meshes of
\* the chosen collection (of its descendants too when recursive is set; the
\* visible ones when visible_only is set), nothing when the scope is COLLECTION
\* and no collection is chosen.
C4_GatherTargets ==
    ex.pc = "gathered" =>
        LET targets == ex.targets
            name(k) == scene_objs[targets[k]].name
        IN  /\ \A j, k \in 1..Len(targets) : j < k => name(j) # name(k) /\ StrLess(name(j), name(k))
            /\ {targets[k] : k \in 1..Len(targets)} = Admitted

\* a recursive gather from the parent collection, visible_only set: object 3 is
\* listed twice by iter_collection_objects, object 2 is hidden, and the two
\* targets come back in name order ("B" before "a b"), not in list order
C4_Witness ==
    /\ ex.pc = "gathered"
    /\ props.scope = "COLLECTION" /\ props.collection = 1
    /\ props.recursive /\ props.visible_only
    /\ ~scene_objs[2].visible /\ scene_objs[2].type = "MESH"
    /\ ex.targets = <<3, 1>>

\* the export operator has ended after entering its loop
Ended == ex.pc = "idle" /\ ex.op = "export" /\ ex.targets # <<>>

\* C2: once the target list is non-empty the export operator never aborts on a
\* per-item failure: whatever the exporter does and whatever the template, it
\* processes every target, returns FINISHED, and its OK and NG counts add up to
\* the number of targets, NG counting the targets whose export failed.
C2_NeverAborts ==
    Ended =>
        /\ ex.ret = "FINISHED"
        /\ ex.k = Len(ex.targets) + 1
        /\ ex.ok_count + ex.ng_count = Len(ex.targets)
        /\ ex.ng_count = Cardinality({n \in 1..Len(ex.log_lines) : ex.log_lines[n].status = "NG"})
        /\ ex.ok_count = Cardinality({n \in 1..Len(ex.log_lines) : ex.log_lines[n].status = "OK"})

\* C3: when the export operator has ended, by its return or by an exception
\* leaving the loop, the selected objects are those selected before the call
\* and the active object is the one active before the call, none if there was
\* none.
C3_SelectionRestored ==
    Ended =>
        /\ ex_selected = ex.before.selected
        /\ ex_active = ex.before.active

\* an export operator call is under way
Running == ex.pc \in {"select", "unique", "export", "obj_retry", "finally"}

\* C10: the export operator runs to completion: a call that is under way
\* eventually ends, the numbered-path search and the OBJ retry loop included,
\* and the retry loop never makes more exporter calls for a target than its
\* first call, one per dropped key and the last one with the two base arguments.
C10_RunsToCompletion ==
    /\ [](ex.calls <= Len(RetryKeys) + 2)
    /\ (Running ~> ex.pc = "idle")

\* a run that ended after a target whose path search had to number the path
\* (its file was already there) and whose OBJ export went through every retry
C10_Witness ==
    /\ ex.pc = "idle" /\ ex.ret = "FINISHED"
    /\ props.export_format = "OBJ"
    /\ ex.i >= 1
    /\ ex.out_path = Candidate(ex.fname, ex.i)
    /\ ex.calls = Len(RetryKeys) + 2
    /\ ex.kw = {"filepath", "export_selected_objects"}

(***************************************************************************)
(* Export By Name: the images the targets use                              *)
(***************************************************************************)
\* bpy.data.images: "b", "C" and "A"
ImageIds == {1, 2, 3}
ImgName(img) == IF img = 1 THEN <<98>> ELSE IF img = 2 THEN <<67>> ELSE <<65>>

\* os.path.basename(img.filepath): images 1 and 3 come from files "b.png" of
\* two directories, image 2 has no file
ImgFile(img) == IF img = 2 THEN <<>> ELSE <<98, 46, 112, 110, 103>>

\* a node of a node tree: TEX_IMAGE with its image, GROUP with its node tree
TexImage(img) == [type |-> "TEX_IMAGE", image |-> img, node_tree |-> None]
Group(tree) == [type |-> "GROUP", image |-> None, node_tree |-> tree]

\* the node trees: tree 1 holds image 1, an image node without image and a
\* group of tree 2; tree 2 holds image 2 and a group of tree 3; tree 3 holds
\* image 3; tree 4 holds image 2; tree 5 holds image 1
TreeIds == {1, 2, 3, 4, 5}
node_trees ==
    [t \in TreeIds |->
        CASE t = 1 -> <<TexImage(1), TexImage(None), Group(2)>>
          [] t = 2 -> <<TexImage(2), Group(3), Group(None)>>
          [] t = 3 -> <<TexImage(3)>>
          [] t = 4 -> <<TexImage(2)>>
          [] t = 5 -> <<TexImage(1)>>]

\* the materials: 1 and 3 use nodes, 2 does not
MaterialIds == {1, 2, 3}
materials ==
    [m \in MaterialIds |->
        CASE m = 1 -> [use_nodes |-> TRUE, node_tree |-> 1]
          [] m = 2 -> [use_nodes |-> FALSE, node_tree |-> 4]
          [] m = 3 -> [use_nodes |-> TRUE, node_tree |-> 5]]

\* obj.material_slots: the material of each slot, None for an empty slot
material_slots(o) == IF o = 1 THEN <<1, None>>
                     ELSE IF o = 2 THEN <<2, 3>> ELSE <<>>

\* _gather_images_from_node_tree(ntree, out_set): the images it adds
RECURSIVE gather_images_from_node_tree(_)
gather_images_from_node_tree(ntree) ==
    IF ntree = None THEN {}
    ELSE UNION {LET node == node_trees[ntree][n]
                IN  IF node.type = "TEX_IMAGE" /\ node.image # None THEN {node.image}
                    ELSE IF node.type = "GROUP" /\ node.node_tree # None
                    THEN gather_images_from_node_tree(node.node_tree)
                    ELSE {} : n \in 1..Len(node_trees[ntree])}

\* gather_images_from_objects(objs)
gather_images_from_objects(objs) ==
    UNION {UNION {LET mat == material_slots(objs[k])[slot]
                  IN  IF mat = None THEN {}
                      ELSE IF materials[mat].use_nodes
                      THEN gather_images_from_node_tree(materials[mat].node_tree)
                      ELSE {} : slot \in 1..Len(material_slots(objs[k]))} : k \in 1..Len(objs)}

\* str.lower() on the letters A-Z
Lower(s) == [n \in 1..Len(s) |-> IF s[n] \in 65..90 THEN s[n] + 32 ELSE s[n]]

\* sorted(imgs) by name, the case of the letters counting
RECURSIVE sorted_by_name(_)
sorted_by_name(imgs) ==
    IF imgs = {} THEN <<>>
    ELSE LET m == CHOOSE i \in imgs : \A x \in imgs : ~StrLess(ImgName(x), ImgName(i))
         IN  <<m>> \o sorted_by_name(imgs \ {m})

\* sorted(imgs, key=lambda x: x.name.lower())
RECURSIVE sorted_images(_)
sorted_images(imgs) ==
    IF imgs = {} THEN <<>>
    ELSE LET m == CHOOSE i \in imgs :
                      \A x \in imgs : ~StrLess(Lower(ImgName(x)), Lower(ImgName(i)))
         IN  <<m>> \o sorted_images(imgs \ {m})

\* unique_path(path) in a directory holding the files fs, searching from the
\* i-th path on
RECURSIVE UniqueFrom(_, _, _)
UniqueFrom(fs, path, i) ==
    IF Candidate(path, i) \notin fs THEN Candidate(path, i) ELSE UniqueFrom(fs, path, i + 1)

unique_path(fs, path) == UniqueFrom(fs, path, 0)

\* os.path.join(img_dir, basename), relative to the export directory:
\* images_subdir is "textures"
ImgPath(basename) == <<116, 101, 120, 116, 117, 114, 101, 115, 47>> \o basename

\* _image_best_basename(img): the file's name, else the sanitized image name
\* with ".png"
image_best_basename(img) ==
    IF ImgFile(img) # <<>> THEN ImgFile(img)
    ELSE sanitize(ImgName(img)) \o <<46, 112, 110, 103>>

\* what the host does with one image: its source file is there and unpacked and
\* shutil.copy2 works or raises; or there is no such file and img.save works, or
\* it raises and img.save_render works, or both raise
HostDoes(img) ==
    (IF ImgFile(img) # <<>> THEN {"copy_ok", "copy_raises"} ELSE {})
        \cup {"save_ok", "save_render_ok", "save_raises"}

\* copy_or_save_image(img, dest_dir, scene): dest (<<>> for None), the status,
\* and the files of the directory afterwards
copy_or_save_image(fs, img, host) ==
    IF host \in {"copy_ok", "copy_raises"}
    THEN LET dest == unique_path(fs, ImgPath(ImgFile(img)))
         IN  IF host = "copy_ok"
             THEN [dest |-> dest, status |-> "copied", fs |-> fs \cup {dest}]
             ELSE [dest |-> <<>>, status |-> "copy_failed", fs |-> fs]
    ELSE LET dest == unique_path(fs, ImgPath(image_best_basename(img)))
             png_dest == splitext(dest).root \o <<46, 112, 110, 103>>
         IN  IF host = "save_ok"
             THEN [dest |-> dest, status |-> "saved", fs |-> fs \cup {dest}]
             ELSE IF host = "save_render_ok"
             THEN [dest |-> png_dest, status |-> "render_saved", fs |-> fs \cup {png_dest}]
             ELSE [dest |-> <<>>, status |-> "save_failed", fs |-> fs]

\* the header line of the image log
ImagesHeader == [status |-> "HEADER_IMAGES", obj |-> None, path |-> ImgPath(<<>>)]

\* the loop of EBN_OT_export_used_images.execute over the sorted images, from
\* the k-th on: the tally, the log lines, the attempts and the files
RECURSIVE ImageLoop(_, _, _, _)
ImageLoop(imgs, k, host, acc) ==
    IF k > Len(imgs) THEN acc
    ELSE LET r == copy_or_save_image(acc.fs, imgs[k], host[imgs[k]])
             done == [img |-> imgs[k], dest |-> r.dest, status |-> r.status]
         IN  ImageLoop(imgs, k + 1, host,
                 IF r.dest # <<>>
                 THEN [acc EXCEPT !.ok = @ + 1, !.fs = r.fs,
                                  !.log_lines = Append(@, Line("OK", imgs[k], r.dest)),
                                  !.attempts = Append(@, done)]
                 ELSE [acc EXCEPT !.ng = @ + 1, !.fs = r.fs,
                                  !.log_lines = Append(@, Line("NG", imgs[k], <<>>)),
                                  !.attempts = Append(@, done)])

\* EBN_OT_export_used_images.execute
export_used_images ==
    /\ ex.pc = "idle"
    /\ ops < MaxRuns
    /\ ops' = ops + 1
    /\ LET targets == gather_targets(scene_objs, ex_selected, props.scope, props.collection,
                                     props.recursive, props.visible_only)
           imgs == gather_images_from_objects(targets)
       IN  IF ~props.export_dir \/ targets = <<>> \/ imgs = {}
           THEN /\ ex' = [Return("CANCELLED") EXCEPT !.op = "images", !.targets = targets]
                /\ UNCHANGED <<files, log_text, log_cursor>>
           ELSE \E host \in [imgs -> {"copy_ok", "copy_raises", "save_ok", "save_render_ok",
                                      "save_raises"}] :
                    /\ \A img \in imgs : host[img] \in HostDoes(img)
                    /\ LET r == ImageLoop(sorted_images(imgs), 1, host,
                                    [ok |-> 0, ng |-> 0, fs |-> files,
                                     log_lines |-> <<ImagesHeader>>, attempts |-> <<>>])
                       IN  /\ ex' = [NoRun EXCEPT !.op = "images", !.ret = "FINISHED",
                                                  !.log_before = log_text,
                                                  !.cursor_before = log_cursor,
                                                  !.targets = targets,
                                                  !.ok_count = r.ok, !.ng_count = r.ng,
                                                  !.log_lines = r.log_lines,
                                                  !.attempts = r.attempts]
                           /\ files' = r.fs
                           /\ log_text' = TextWrite(log_text, log_cursor, r.log_lines).lines
                           /\ log_cursor' = TextWrite(log_text, log_cursor, r.log_lines).cursor
    /\ UNCHANGED <<scene_objs, ex_selected, ex_active, props, exporters>>
    /\ UNCHANGED <<tsVars, rnVars>>

\* the image operator is run with any of these selections and scopes, on an
\* empty log or after an object export that failed, in an empty directory
ImagesInit ==
    /\ scene_objs = MeshScene
    /\ ex_selected \in {{}, {1}, {2}, {1, 2}}
    /\ \E sc \in {"SELECTED", "VISIBLE"}, dir \in BOOLEAN :
           props = [EBN_Props EXCEPT !.scope = sc, !.export_dir = dir]
    /\ ex_active = None
    /\ exporters = {}
    /\ files = {}
    /\ log_text \in {<<>>, OldLog}
    /\ log_cursor = Len(log_text)
    /\ ex = NoRun
    /\ ops = 0
    /\ TSAtRest

\* the group nodes' trees one step below the given trees
Subtrees(trees) ==
    UNION {{node_trees[t][n].node_tree : n \in {m \in 1..Len(node_trees[t]) :
                                                    /\ node_trees[t][m].type = "GROUP"
                                                    /\ node_trees[t][m].node_tree # None}} :
               t \in trees}

\* the node trees a set of trees reaches through group nodes, nested ones too
RECURSIVE TreesBelow(_, _)
TreesBelow(trees, depth) ==
    IF depth = 0 THEN trees ELSE TreesBelow(trees \cup Subtrees(trees), depth - 1)

\* the distinct images the node-based materials of the targets refer to
Referenced(targets) ==
    LET mats == {m \in MaterialIds :
                    /\ materials[m].use_nodes
                    /\ \E k \in 1..Len(targets) :
                           \E slot \in 1..Len(material_slots(targets[k])) :
                               material_slots(targets[k])[slot] = m}
        trees == TreesBelow({materials[m].node_tree : m \in mats}, Cardinality(TreeIds))
    IN  {img \in ImageIds : \E t \in trees : \E n \in 1..Len(node_trees[t]) :
                                /\ node_trees[t][n].type = "TEX_IMAGE"
                                /\ node_trees[t][n].image = img}

\* the statuses of an image that was not written
FailedStatus == {"copy_failed", "save_failed"}

\* C11: the image export keeps going past per-image failures: when the targets'
\* node-based materials (nested node groups included) refer to an image and
\* the export directory is set, the operator returns FINISHED; every distinct
\* image is attempted exactly once, in case-insensitive name order; an image
\* whose copy or save fails is counted as NG and logged, the others as OK, each
\* with its line in the order of the attempts; OK + NG is the number of
\* distinct images.
C11_ImagesKeepGoing ==
    (ex.pc = "idle" /\ ex.op = "images") =>
        LET imgs == Referenced(ex.targets)
            tried == ex.attempts
            failed == {k \in 1..Len(tried) : tried[k].status \in FailedStatus}
        IN  /\ ex.ret = (IF props.export_dir /\ imgs # {} THEN "FINISHED" ELSE "CANCELLED")
            /\ ex.ret = "FINISHED" =>
                   /\ Len(tried) = Cardinality(imgs)
                   /\ {tried[k].img : k \in 1..Len(tried)} = imgs
                   /\ \A j, k \in 1..Len(tried) :
                          j < k => ~StrLess(Lower(ImgName(tried[k].img)),
                                            Lower(ImgName(tried[j].img)))
                   /\ ex.ng_count = Cardinality(failed)
                   /\ ex.ok_count + ex.ng_count = Cardinality(imgs)
                   /\ Len(ex.log_lines) = Len(tried) + 1
                   /\ \A k \in 1..Len(tried) :
                          /\ ex.log_lines[k + 1].obj = tried[k].img
                          /\ ex.log_lines[k + 1].status = (IF k \in failed THEN "NG" ELSE "OK")
                          /\ k \notin failed => tried[k].dest \in files

\* the three images of object 1 attempted as "A", "b", "C": the first fails to
\* save, the second fails to copy, the third is still written
C11_Witness ==
    /\ ex.pc = "idle" /\ ex.op = "images" /\ ex.ret = "FINISHED"
    /\ Len(ex.attempts) = Cardinality(ImageIds)
    /\ ex.attempts[1].img = 3 /\ ex.attempts[1].status = "save_failed"
    /\ ex.attempts[2].img = 1 /\ ex.attempts[2].status = "copy_failed"
    /\ ex.attempts[3].img = 2 /\ ex.attempts[3].status = "saved"
    /\ ex.ok_count = 1 /\ ex.ng_count = 2

\* the sessions of the log: an object export to FBX or an image export of the
\* selected objects, with and without the exporter, the log switch on or off;
\* the log is empty, or an earlier export left it and the user has clicked on
\* one of its lines in the text editor or has not
LogInit ==
    /\ scene_objs = MeshScene
    /\ ex_selected \in {{}, {1, 2}}
    /\ \E l \in BOOLEAN : props = [EBN_Props EXCEPT !.log_to_text = l]
    /\ ex_active = None
    /\ exporters \in Hosts(props.export_format)
    /\ files = {}
    /\ log_text \in {<<>>, OldLog}
    /\ log_cursor \in 0..Len(log_text)
    /\ ex = NoRun
    /\ ops = 0
    /\ TSAtRest

LogNext ==
    \/ ExportBegin
    \/ ExportSelect
    \/ UniquePath
    \/ DoExport
    \/ ExportFinally
    \/ export_used_images

\* an object export has returned FINISHED
ObjectsFinished == ex.pc = "idle" /\ ex.op = "export" /\ ex.ret = "FINISHED"

\* an image export has returned FINISHED
ImagesFinished == ex.pc = "idle" /\ ex.op = "images" /\ ex.ret = "FINISHED"

\* the log after an object export: with log_to_text one header and one OK or NG
\* line per target in target order, and nothing of the earlier log; without
\* log_to_text the earlier log
ObjectLogRecorded ==
    IF props.log_to_text
    THEN /\ Len(log_text) = Len(ex.targets) + 1
         /\ log_text[1] = Header
         /\ \A k \in 1..Len(ex.targets) :
                /\ log_text[k + 1].obj = ex.targets[k]
                /\ log_text[k + 1].status \in {"OK", "NG"}
    ELSE log_text = ex.log_before

\* the lines an image export writes: its header and one OK or NG line per image
ImageLines(lines) ==
    /\ Len(lines) = Len(ex.attempts) + 1
    /\ lines[1] = ImagesHeader
    /\ \A k \in 1..Len(ex.attempts) :
           /\ lines[k + 1].obj = ex.attempts[k].img
           /\ lines[k + 1].status \in {"OK", "NG"}

\* C12 as stated: after an object export that returns FINISHED the log holds,
\* with log_to_text, one header and one line per target in target order in
\* place of what it held, and without log_to_text what it held; after an image
\* export that returns FINISHED the log holds what it held, followed by the
\* header and one line per image.
C12_LogRecords_AsStated ==
    /\ ObjectsFinished => ObjectLogRecorded
    /\ ImagesFinished =>
           /\ Len(log_text) >= Len(ex.log_before)
           /\ SubSeq(log_text, 1, Len(ex.log_before)) = ex.log_before
           /\ ImageLines(SubSeq(log_text, Len(ex.log_before) + 1, Len(log_text)))

\* C12: after an object export that returns FINISHED the log holds, with
\* log_to_text, one header and one line per target in target order in place of
\* what it held, and without log_to_text what it held; after an image export
\* that returns FINISHED the log holds what it held, nothing cleared, with the
\* header and one line per image put in at the text cursor: after the earlier
\* content when the cursor is where the last write left it.
C12_LogRecords ==
    /\ ObjectsFinished => ObjectLogRecorded
    /\ ImagesFinished =>
           LET c == ex.cursor_before
               n == Len(log_text) - Len(ex.log_before)
           IN  /\ n >= 0
               /\ SubSeq(log_text, 1, c) = SubSeq(ex.log_before, 1, c)
               /\ ImageLines(SubSeq(log_text, c + 1, c + n))
               /\ SubSeq(log_text, c + n + 1, Len(log_text))
                      = SubSeq(ex.log_before, c + 1, Len(ex.log_before))
               /\ ex.cursor_before = Len(ex.log_before) =>
                      SubSeq(log_text, 1, Len(ex.log_before)) = ex.log_before

\* an image export after the user has clicked on the second line of an earlier log:
\* the image lines stand between the old header and the old line
C12_Witness ==
    /\ ImagesFinished
    /\ ex.log_before = OldLog
    /\ ex.cursor_before = 1
    /\ log_text[1] = Header /\ log_text[2] = ImagesHeader
    /\ log_text[Len(log_text)] = OldLog[2]

(***************************************************************************)
(* Export By Name: the exporter calls of the export operator               *)
(***************************************************************************)
\* the sessions of the exporter calls: meshes 1 and 2 and the empty 3, mesh 2
\* shown or hidden in the view layer; the selected objects are visible ones;
\* the scope is the selection or collection 1, whose child holds mesh 2
CallInit ==
    /\ \E shown \in BOOLEAN :
           /\ scene_objs = [MeshScene EXCEPT ![2].visible = shown]
           /\ ex_selected \in {{1}, {o \in {1, 2} : o = 1 \/ shown}}
    /\ \E sc \in {<<"SELECTED", None>>, <<"COLLECTION", 1>>}, v \in BOOLEAN,
          f \in {"FBX", "OBJ"} :
           props = [EBN_Props EXCEPT !.scope = sc[1], !.collection = sc[2],
                                     !.visible_only = v, !.export_format = f]
    /\ ex_active \in {None, 1}
    /\ exporters \in Hosts(props.export_format)
    /\ files = {}
    /\ log_text = <<>>
    /\ log_cursor = 0
    /\ ex = NoRun
    /\ ops = 0
    /\ TSAtRest

\* this step is an exporter call of the running export operator
ExporterCalled == ex.pc \in {"export", "obj_retry"} /\ ex'.calls = ex.calls + 1

\* this step ends the loop body of the current target
TargetDone == ex.pc \in {"export", "obj_retry"} /\ ex'.k = ex.k + 1

\* C13: each object is exported to its own file: the export operator calls the
\* exporter exactly once per target, and at each call exactly one object is
\* selected, which is the target being exported and the active object.
C13_OneCallPerTarget ==
    [][/\ ExporterCalled => /\ ex_selected = {ex.targets[ex.k]}
                            /\ ex_active = ex.targets[ex.k]
       /\ TargetDone => ex'.calls = 1]_vars

\* the part of C13 that holds whatever the host does: at each exporter call the
\* target is the active object and no other object is selected, and a target
\* sees at most Len(RetryKeys) + 2 calls
C13_NoOtherObject ==
    [][/\ ExporterCalled => /\ ex_selected \subseteq {ex.targets[ex.k]}
                            /\ ex_active = ex.targets[ex.k]
       /\ TargetDone => ex'.calls <= Len(RetryKeys) + 2]_vars

\* the exporter called for the hidden mesh 2 with nothing selected
C13_HiddenTargetCalled ==
    /\ ex.op = "export" /\ ex.pc = "obj_retry" /\ ex.calls >= 1
    /\ ex.targets = <<1, 2>> /\ ex.k = 2 /\ ~scene_objs[2].visible
    /\ ex_selected = {}

(***************************************************************************)
(* Super Renamer: the rename functions, for objects as the target type.    *)
(* Names are sequences of code points.                                     *)
(***************************************************************************)
\* the scene's objects, in the order the host lists them
RnIds == {1, 2}

\* the operations of apply_rename and apply_numbering the sessions use
RnOperations == {"REPLACE", "PREFIX", "SUFFIX", "REMOVE_PREFIX", "REMOVE_SUFFIX", "NUMBERING"}

\* SuperRenamerProps with its defaults, the strings the user has typed filled in:
\* find "a", replace "c", prefix "a", suffix "b"
SuperRenamerProps ==
    [target_type |-> "OBJECT", scope |-> "SELECTED", operation |-> "REPLACE",
     find_string |-> <<97>>, replace_string |-> <<99>>, case_sensitive |-> TRUE,
     prefix_string |-> <<97>>, suffix_string |-> <<98>>,
     number_start |-> 1, number_step |-> 1, number_digits |-> 3,
     number_separator |-> <<95>>, number_base_name |-> <<>>, number_position |-> "SUFFIX",
     case_type |-> "SNAKE"]

\* get_target_items(context, props) for objects: the selected or all objects
get_target_items(sel, p) ==
    IF p.scope = "SELECTED" THEN SelectSeq(<<1, 2>>, LAMBDA o : o \in sel)
    ELSE <<1, 2>>

\* name.startswith(prefix)
StartsWith(name, prefix) ==
    Len(prefix) <= Len(name) /\ SubSeq(name, 1, Len(prefix)) = prefix

\* name.endswith(suffix)
EndsWith(name, suffix) ==
    Len(suffix) <= Len(name) /\ SubSeq(name, Len(name) - Len(suffix) + 1, Len(name)) = suffix

\* name.replace(find, repl) for a non-empty find: every occurrence, left to right
RECURSIVE Replace(_, _, _)
Replace(name, find, repl) ==
    IF name = <<>> THEN <<>>
    ELSE IF StartsWith(name, find)
    THEN repl \o Replace(SubSeq(name, Len(find) + 1, Len(name)), find, repl)
    ELSE <<Head(name)>> \o Replace(Tail(name), find, repl)

\* str.isupper / str.islower of one character of an ASCII name
IsUpper(c) == c \in 65..90
IsLower(c) == c \in 97..122

\* the ASCII characters \s of a str pattern matches
Whitespace == (9..13) \cup (28..32)

\* str.upper() and str.lower() of an ASCII name
upper(name) == [i \in 1..Len(name) |-> IF IsLower(name[i]) THEN name[i] - 32 ELSE name[i]]
lower(name) == [i \in 1..Len(name) |-> IF IsUpper(name[i]) THEN name[i] + 32 ELSE name[i]]

\* word.capitalize(): the first character in upper case, the others in lower case
capitalize(word) ==
    IF word = <<>> THEN <<>> ELSE upper(SubSeq(word, 1, 1)) \o lower(Tail(word))

\* re.sub(r'(?<!^)(?=[A-Z])', '_', name): an underscore before every capital
\* letter but one that starts the name
RECURSIVE UnderscoreCapitals(_, _)
UnderscoreCapitals(name, i) ==
    IF i > Len(name) THEN <<>>
    ELSE (IF i > 1 /\ IsUpper(name[i]) THEN <<95, name[i]>> ELSE <<name[i]>>)
         \o UnderscoreCapitals(name, i + 1)

\* re.sub(<class>+, repl, s): every maximal run of characters of the class
\* replaced by repl
RECURSIVE SubRuns(_, _, _)
SubRuns(s, class, repl) ==
    IF s = <<>> THEN <<>>
    ELSE IF s[1] \in class
         THEN IF Len(s) > 1 /\ s[2] \in class THEN SubRuns(Tail(s), class, repl)
              ELSE repl \o SubRuns(Tail(s), class, repl)
         ELSE <<s[1]>> \o SubRuns(Tail(s), class, repl)

\* s.strip('_')
RECURSIVE strip_underscores(_)
strip_underscores(s) ==
    IF s = <<>> THEN s
    ELSE IF s[1] = 95 THEN strip_underscores(Tail(s))
    ELSE IF s[Len(s)] = 95 THEN strip_underscores(SubSeq(s, 1, Len(s) - 1))
    ELSE s

\* to_snake_case(name)
to_snake_case(name) ==
    LET s1 == UnderscoreCapitals(name, 1)
        s2 == SubRuns(s1, Whitespace \cup {45}, <<95>>)
        s3 == SubRuns(s2, {95}, <<95>>)
    IN  strip_underscores(lower(s3))

\* [word for word in re.split(r'[_\s\-]+', name) if word]: the maximal runs of
\* characters other than underscore, white space and hyphen; cur is the word
\* being read
RECURSIVE Words(_, _)
Words(name, cur) ==
    IF name = <<>> THEN (IF cur = <<>> THEN <<>> ELSE <<cur>>)
    ELSE IF name[1] \in {95, 45} \cup Whitespace
         THEN (IF cur = <<>> THEN <<>> ELSE <<cur>>) \o Words(Tail(name), <<>>)
         ELSE Words(Tail(name), Append(cur, name[1]))

\* sep.join(word.capitalize() for word in parts)
RECURSIVE JoinCapitalized(_, _)
JoinCapitalized(parts, sep) ==
    IF parts = <<>> THEN <<>>
    ELSE IF Len(parts) = 1 THEN capitalize(parts[1])
    ELSE capitalize(parts[1]) \o sep \o JoinCapitalized(Tail(parts), sep)

\* to_camel_case(name)
to_camel_case(name) == JoinCapitalized(Words(name, <<>>), <<>>)

\* to_lower_camel_case(name)
to_lower_camel_case(name) ==
    LET camel == to_camel_case(name)
    IN  IF camel # <<>> THEN lower(SubSeq(camel, 1, 1)) \o Tail(camel) ELSE camel

\* to_kebab_case(name)
to_kebab_case(name) ==
    LET snake == to_snake_case(name)
    IN  [i \in 1..Len(snake) |-> IF snake[i] = 95 THEN 45 ELSE snake[i]]

\* to_title_case(name)
to_title_case(name) == JoinCapitalized(Words(name, <<>>), <<32>>)

\* the items of the case_type property
CaseTypes == {"UPPER", "LOWER", "TITLE", "SNAKE", "CAMEL", "LOWER_CAMEL", "KEBAB"}

\* apply_case_conversion(name, case_type)
apply_case_conversion(name, case_type) ==
    CASE case_type = "UPPER" -> upper(name)
      [] case_type = "LOWER" -> lower(name)
      [] case_type = "TITLE" -> to_title_case(name)
      [] case_type = "SNAKE" -> to_snake_case(name)
      [] case_type = "CAMEL" -> to_camel_case(name)
      [] case_type = "LOWER_CAMEL" -> to_lower_camel_case(name)
      [] case_type = "KEBAB" -> to_kebab_case(name)
      [] OTHER -> name

\* apply_rename(name, props)
apply_rename(name, p) ==
    CASE p.operation = "REPLACE" ->
             IF p.find_string # <<>> /\ p.case_sensitive
             THEN Replace(name, p.find_string, p.replace_string) ELSE name
      [] p.operation = "PREFIX" -> p.prefix_string \o name
      [] p.operation = "SUFFIX" -> name \o p.suffix_string
      [] p.operation = "REMOVE_PREFIX" ->
             IF p.prefix_string # <<>> /\ StartsWith(name, p.prefix_string)
             THEN SubSeq(name, Len(p.prefix_string) + 1, Len(name)) ELSE name
      [] p.operation = "REMOVE_SUFFIX" ->
             IF p.suffix_string # <<>> /\ EndsWith(name, p.suffix_string)
             THEN SubSeq(name, 1, Len(name) - Len(p.suffix_string)) ELSE name
      [] p.operation = "CASE" -> apply_case_conversion(name, p.case_type)
      [] OTHER -> name

\* str(num).zfill(width) that pads nothing
ZFill_unpadded(s, width) == s

\* str(num).zfill(width) for num >= 0
RECURSIVE ZFill(_, _)
ZFill(s, width) == IF Len(s) >= width THEN s ELSE ZFill(<<48>> \o s, width)

\* apply_numbering(items, props): the new name of the k-th item (k from 1)
NumberedName(names, items, k, p) ==
    LET base == IF p.number_base_name # <<>> THEN p.number_base_name ELSE names[items[k]]
        num_str == ZFill(Digits(p.number_start + (k - 1) * p.number_step), p.number_digits)
    IN  IF p.number_position = "SUFFIX" THEN base \o p.number_separator \o num_str
        ELSE num_str \o p.number_separator \o base

\* apply_numbering(items, props): the list of (item, new_name)
apply_numbering(names, items, p) ==
    [k \in 1..Len(items) |-> <<items[k], NumberedName(names, items, k, p)>>]

\* the new name execute and the preview compute for the k-th target item
NewName(names, items, k, p) ==
    IF p.operation = "NUMBERING" THEN NumberedName(names, items, k, p)
    ELSE apply_rename(names[items[k]], p)

\* get_preview_data(context, props): the (old name, new name) pairs
get_preview_data(names, sel, p) ==
    LET items == get_target_items(sel, p)
    IN  [k \in 1..Len(items) |-> <<names[items[k]], NewName(names, items, k, p)>>]

(***************************************************************************)
(* Super Renamer: SUPERRENAMER_OT_rename and the user's edits              *)
(***************************************************************************)
\* one more operation of the Super Renamer session
RnTick == ops < MaxOps /\ ops' = ops + 1 /\ UNCHANGED <<tsVars, exVars>>

\* the operator at rest, with what its last call returned and reported
RnIdle(ret, count) == [pc |-> "idle", ret |-> ret, count |-> count]

\* [(old, new) for old, new in self._preview_data if old != new]
Changes(preview) == SelectSeq(preview, LAMBDA pair : pair[1] # pair[2])

\* invoke: the preview is computed and stored, and the dialog opens when the
\* preview holds a change
invoke ==
    /\ rn.pc = "idle"
    /\ RnTick
    /\ LET items == get_target_items(rn_selected, rn_props)
           preview == get_preview_data(rn_names, rn_selected, rn_props)
       IN  IF items = <<>>
           THEN rn' = RnIdle("CANCELLED", 0) /\ preview_data' = preview_data
           ELSE /\ preview_data' = preview
                /\ rn' = IF Changes(preview) = <<>> THEN RnIdle("CANCELLED", 0)
                         ELSE [pc |-> "dialog", ret |-> "RUNNING_MODAL", count |-> 0]
    /\ UNCHANGED <<rn_names, rn_selected, rn_props>>

\* item.name = new_name for object o: the host keeps object names unique, and
\* stores a name that another object bears with the first free numeric suffix
\* (.001, .002, ...); the sessions' names bear no such suffix beforehand
HostName(names, o, new_name) ==
    LET taken == {names[x] : x \in RnIds \ {o}}
        free == {i \in 1..Cardinality(RnIds) : new_name \o <<46>> \o Pad3(i) \notin taken}
    IN  IF new_name \notin taken THEN new_name
        ELSE new_name \o <<46>> \o Pad3(CHOOSE i \in free : \A j \in free : i <= j)

\* the loops of execute from the k-th item on: news[k] is the new name of the
\* k-th item where apply_numbering has computed it before the loop, and each
\* other operation computes it from the name the item bears at its turn:
\* [names, count]
RECURSIVE RenameLoop(_, _, _, _, _, _)
RenameLoop(names, items, k, news, p, count) ==
    IF k > Len(items) THEN [names |-> names, count |-> count]
    ELSE LET old_name == names[items[k]]
             new_name == IF p.operation = "NUMBERING" THEN news[k]
                         ELSE apply_rename(old_name, p)
         IN  IF old_name # new_name
             THEN RenameLoop([names EXCEPT ![items[k]] = HostName(names, items[k], new_name)],
                             items, k + 1, news, p, count + 1)
             ELSE RenameLoop(names, items, k + 1, news, p, count)

\* execute, called when the user confirms the dialog
execute ==
    /\ rn.pc = "dialog"
    /\ RnTick
    /\ LET items == get_target_items(rn_selected, rn_props)
           news == [k \in 1..Len(items) |-> NumberedName(rn_names, items, k, rn_props)]
           r == RenameLoop(rn_names, items, 1, news, rn_props, 0)
       IN  IF items = <<>>
           THEN rn' = RnIdle("CANCELLED", 0) /\ rn_names' = rn_names
           ELSE /\ rn_names' = r.names
                /\ rn' = RnIdle("FINISHED", r.count)
    /\ UNCHANGED <<rn_selected, rn_props, preview_data>>

\* the user dismisses the dialog: the operator defines no cancel()
DialogCancel ==
    /\ rn.pc = "dialog"
    /\ RnTick
    /\ rn' = RnIdle("CANCELLED", 0)
    /\ UNCHANGED <<rn_names, rn_selected, rn_props, preview_data>>

\* the user selects or deselects an object
RnUserSelect(o) ==
    /\ rn.pc = "idle"
    /\ RnTick
    /\ rn_selected' = IF o \in rn_selected THEN rn_selected \ {o} ELSE rn_selected \cup {o}
    /\ UNCHANGED <<rn_names, rn_props, preview_data, rn>>

\* the user picks an operation in the panel
RnUserSetOperation(operation) ==
    /\ rn.pc = "idle"
    /\ RnTick
    /\ operation # rn_props.operation
    /\ rn_props' = [rn_props EXCEPT !.operation = operation]
    /\ UNCHANGED <<rn_names, rn_selected, preview_data, rn>>

\* the add-on registered and never used, in a scene of the objects "ab" and "b"
RnAtRest ==
    /\ rn_names = [o \in RnIds |-> IF o = 1 THEN <<97, 98>> ELSE <<98>>]
    /\ rn_selected = {}
    /\ rn_props = SuperRenamerProps
    /\ preview_data = <<>>
    /\ rn = RnIdle("", 0)

\* the sessions start with any selection, scope and operation
RnInit ==
    /\ rn_names = [o \in RnIds |-> IF o = 1 THEN <<97, 98>> ELSE <<98>>]
    /\ rn_selected \in SUBSET RnIds
    /\ \E sc \in {"SELECTED", "ALL"}, operation \in RnOperations :
           rn_props = [SuperRenamerProps EXCEPT !.scope = sc, !.operation = operation]
    /\ preview_data = <<>>
    /\ rn = RnIdle("", 0)
    /\ ops = 0

RnNext ==
    \/ invoke
    \/ execute
    \/ DialogCancel
    \/ \E o \in RnIds : RnUserSelect(o)
    \/ \E operation \in RnOperations : RnUserSetOperation(operation)

\* C7: the rename preview is transient: it lists the (old name, new name) pairs
\* in target-item order, and once the operation that produced it has completed
\* (execute finished, or invoke cancelled) the stored list is discarded, so that
\* a later operation starts with no earlier preview.
C7_PreviewTransient ==
    /\ rn.pc = "dialog" => preview_data = get_preview_data(rn_names, rn_selected, rn_props)
    /\ rn.pc = "idle" => preview_data = <<>>

\* this step is execute renaming the target items
Executed == rn.pc = "dialog" /\ rn'.pc = "idle" /\ rn'.ret = "FINISHED"

\* C25: execute renames exactly what the preview shows: with the scene and the
\* settings as they were at invoke, execute gives each target item whose
\* preview pair has old != new the new name of the pair, leaves every other
\* name as it is, and reports the number of pairs with old != new.
C25_ExecuteAsPreviewed ==
    [][Executed =>
           LET items == get_target_items(rn_selected, rn_props) IN
           /\ Len(preview_data) = Len(items)
           /\ \A k \in 1..Len(items) :
                  /\ preview_data[k][1] = rn_names[items[k]]
                  /\ rn_names'[items[k]] = preview_data[k][2]
           /\ \A o \in RnIds :
                  (\A k \in 1..Len(items) : items[k] # o) => rn_names'[o] = rn_names[o]
           /\ rn'.count = Len(Changes(preview_data))
      ]_vars

\* what holds of execute: the count is that of the preview, the names of the
\* pairs with old = new and of the other objects stay, and an item of a pair
\* with old != new bears the new name of the pair or, where another object
\* bears it, that name with a numeric suffix
C25_ExecuteUpToSuffix ==
    [][Executed =>
           LET items == get_target_items(rn_selected, rn_props) IN
           /\ Len(preview_data) = Len(items)
           /\ \A k \in 1..Len(items) :
                  LET new == preview_data[k][2]
                      got == rn_names'[items[k]]
                  IN  /\ preview_data[k][1] = rn_names[items[k]]
                      /\ \/ got = new
                         \/ /\ new # preview_data[k][1]
                            /\ \E o \in RnIds \ {items[k]} : rn_names'[o] = new
                            /\ Len(got) = Len(new) + 4
                            /\ SubSeq(got, 1, Len(new) + 1) = new \o <<46>>
           /\ \A o \in RnIds :
                  (\A k \in 1..Len(items) : items[k] # o) => rn_names'[o] = rn_names[o]
           /\ rn'.count = Len(Changes(preview_data))
      ]_vars

\* execute has renamed "ab" after the preview pair ("ab", "b") while the other
\* object bears the name "b": the object is named "b.001"
C25_CollisionRenamed ==
    /\ rn.pc = "idle" /\ rn.ret = "FINISHED" /\ rn.count = 1
    /\ preview_data = <<<<<<97, 98>>, <<98>>>>, <<<<98>>, <<98>>>>>>
    /\ rn_names[1] = <<98, 46, 48, 48, 49>>
    /\ rn_names[2] = <<98>>

(***************************************************************************)
(* Super Renamer: apply_case_conversion on its own                         *)
(***************************************************************************)
\* the longest name of the case conversion sessions
MaxNameLen == 3

\* the characters of the names: small and capital letters, a digit, and the
\* three kinds of separator (underscore, space, hyphen)
NameChars == {97, 98, 65, 66, 49, 95, 32, 45}

\* the names of at most n characters
RECURSIVE NamesUpTo(_)
NamesUpTo(n) ==
    IF n = 0 THEN {<<>>}
    ELSE NamesUpTo(n - 1) \cup {Append(s, c) : s \in NamesUpTo(n - 1), c \in NameChars}

\* apply_case_conversion(name, case_type) on the name of object 1
CaseConvert ==
    /\ rn.pc = "idle"
    /\ RnTick
    /\ rn' = [pc |-> "converted", ret |-> "", count |-> 0,
              once |-> apply_case_conversion(rn_names[1], rn_props.case_type)]
    /\ UNCHANGED <<rn_names, rn_selected, rn_props, preview_data>>

\* apply_case_conversion(name, case_type) on the name the first call returned
CaseConvertAgain ==
    /\ rn.pc = "converted"
    /\ RnTick
    /\ rn' = [pc |-> "reconverted", ret |-> "", count |-> 0, once |-> rn.once,
              twice |-> apply_case_conversion(rn.once, rn_props.case_type)]
    /\ UNCHANGED <<rn_names, rn_selected, rn_props, preview_data>>

CaseNext == CaseConvert \/ CaseConvertAgain

\* the calls of apply_case_conversion: any name of the characters above for
\* object 1, any case type
CaseInit ==
    /\ \E n \in NamesUpTo(MaxNameLen) :
           rn_names = [o \in RnIds |-> IF o = 1 THEN n ELSE <<98>>]
    /\ rn_selected = {1}
    /\ \E t \in CaseTypes :
           rn_props = [SuperRenamerProps EXCEPT !.operation = "CASE", !.case_type = t]
    /\ preview_data = <<>>
    /\ rn = RnIdle("", 0)
    /\ ops = 0

\* C26: case conversions are idempotent: for each case type and every name,
\* converting the converted name again with the same case type returns it
\* unchanged: apply_case_conversion(apply_case_conversion(n, t), t) =
\* apply_case_conversion(n, t).
C26_CaseIdempotent ==
    rn.pc = "reconverted" => rn.twice = rn.once

\* the case types that join the words of a name without a separator
JoiningCaseTypes == {"CAMEL", "LOWER_CAMEL"}

\* what holds: the conversions of the other case types are idempotent, and a
\* CamelCase or lowerCamelCase name of one word is converted to itself
C26_CaseIdempotentButJoined ==
    rn.pc = "reconverted" =>
        \/ rn.twice = rn.once
        \/ /\ rn_props.case_type \in JoiningCaseTypes
           /\ Len(Words(rn_names[1], <<>>)) > 1

\* "a_b" has been converted to CamelCase twice: "AB", then "Ab"
C26_CamelTwice ==
    /\ rn.pc = "reconverted"
    /\ rn_props.case_type = "CAMEL"
    /\ rn_names[1] = <<97, 95, 98>>
    /\ rn.once = <<65, 66>>
    /\ rn.twice = <<65, 98>>

(***************************************************************************)
(* Super Renamer: apply_numbering on its own                               *)
(***************************************************************************)
\* the largest number_digits and number_step of the numbering sessions
MaxDigits == 3
MaxStep == 2

\* the values of number_start of the numbering sessions: the property's
\* minimum, its default, and the last one-digit number
NumberStarts == {0, 1, 9}

\* one call of apply_numbering on the target items
Numbering ==
    /\ rn.pc = "idle"
    /\ RnTick
    /\ LET items == get_target_items(rn_selected, rn_props)
       IN  rn' = [pc |-> "numbered", ret |-> "", count |-> 0, items |-> items,
                  result |-> apply_numbering(rn_names, items, rn_props)]
    /\ UNCHANGED <<rn_names, rn_selected, rn_props, preview_data>>

\* the calls of apply_numbering: objects "ab" and "b" or "a" and "a1", any
\* selection and scope, and the numbering properties within their declared
\* ranges (number_start >= 0, number_step >= 1, number_digits >= 1)
NumberingInit ==
    /\ rn_names \in {[o \in RnIds |-> IF o = 1 THEN <<97, 98>> ELSE <<98>>],
                     [o \in RnIds |-> IF o = 1 THEN <<97>> ELSE <<97, 49>>]}
    /\ rn_selected \in SUBSET RnIds
    /\ \E sc \in {"SELECTED", "ALL"}, start \in NumberStarts, step \in 1..MaxStep,
          digits \in 1..MaxDigits, sep \in {<<>>, <<95>>}, base \in {<<>>, <<97>>},
          pos \in {"SUFFIX", "PREFIX"} :
           rn_props = [SuperRenamerProps EXCEPT
                          !.scope = sc, !.operation = "NUMBERING", !.number_start = start,
                          !.number_step = step, !.number_digits = digits,
                          !.number_separator = sep, !.number_base_name = base,
                          !.number_position = pos]
    /\ preview_data = <<>>
    /\ rn = RnIdle("", 0)
    /\ ops = 0

\* the number a string of decimal digits denotes
RECURSIVE NumeralValue(_)
NumeralValue(s) ==
    IF s = <<>> THEN 0
    ELSE 10 * NumeralValue(SubSeq(s, 1, Len(s) - 1)) + (s[Len(s)] - 48)

\* s is the number n in decimal, left-padded with zeros to at least `digits` digits
PaddedDecimal(s, n, digits) ==
    /\ \A c \in 1..Len(s) : s[c] \in 48..57
    /\ NumeralValue(s) = n
    /\ Len(s) >= digits
    /\ Len(s) > digits => (s[1] # 48 \/ Len(s) = 1)

\* C14: sequential numbering: the k-th of the n target items (k = 0..n-1, in
\* target order) gets the number number_start + k * number_step, in decimal,
\* left-padded with zeros to at least number_digits digits; its new name is
\* base + separator + number (SUFFIX) or number + separator + base (PREFIX),
\* base being number_base_name when that is non-empty and else the item's name
\* before the call; with a non-empty base name the n new names are pairwise
\* distinct.
C14_Numbering ==
    rn.pc = "numbered" =>
        LET p == rn_props
            items == get_target_items(rn_selected, p)
            res == rn.result
            lead(k) == (IF p.number_base_name # <<>> THEN p.number_base_name
                        ELSE rn_names[items[k]])
            fixed(k) == Len(lead(k)) + Len(p.number_separator)
        IN  /\ Len(res) = Len(items)
            /\ \A k \in 1..Len(items) :
                   LET new == res[k][2]
                       n == p.number_start + (k - 1) * p.number_step
                   IN  /\ res[k][1] = items[k]
                       /\ Len(new) >= fixed(k) + p.number_digits
                       /\ IF p.number_position = "SUFFIX"
                          THEN /\ SubSeq(new, 1, fixed(k)) = lead(k) \o p.number_separator
                               /\ PaddedDecimal(SubSeq(new, fixed(k) + 1, Len(new)), n,
                                                p.number_digits)
                          ELSE /\ SubSeq(new, Len(new) - fixed(k) + 1, Len(new))
                                      = p.number_separator \o lead(k)
                               /\ PaddedDecimal(SubSeq(new, 1, Len(new) - fixed(k)), n,
                                                p.number_digits)
            /\ p.number_base_name # <<>> =>
                   \A j, k \in 1..Len(res) : j # k => res[j][2] # res[k][2]

\* both objects numbered after the base name "a" from 9 in steps of 1 with one
\* digit: "a_9", and "a_10", which is longer than number_digits
C14_Witness ==
    /\ rn.pc = "numbered"
    /\ rn_props.number_base_name = <<97>> /\ rn_props.number_digits = 1
    /\ rn_props.number_position = "SUFFIX"
    /\ Len(rn.result) = 2
    /\ rn.result[1][2] = <<97, 95, 57>>
    /\ rn.result[2][2] = <<97, 95, 49, 48>>

(***************************************************************************)
(* Export By Name: the paths the export operator writes                    *)
(***************************************************************************)
\* q is root.NNN.ext of path for the number n: n in decimal, zero-padded to
\* three digits, between the root and the extension of path
NumberedPath(path, n, q) ==
    LET root == splitext(path).root
        ext == splitext(path).ext
        numeral == SubSeq(q, Len(root) + 2, Len(q) - Len(ext))
    IN  /\ Len(q) >= Len(path) + 4
        /\ SubSeq(q, 1, Len(root)) = root
        /\ q[Len(root) + 1] = 46
        /\ SubSeq(q, Len(q) - Len(ext) + 1, Len(q)) = ext
        /\ PaddedDecimal(numeral, n, 3)

\* res is what unique_path is to return for path in a directory holding fs
UniqueResult(path, fs, res) ==
    IF path \notin fs THEN res = path
    ELSE \E n \in 1..(Cardinality(fs) + 1) :
             /\ NumberedPath(path, n, res)
             /\ res \notin fs
             /\ \A m \in 1..(n - 1) : \E q \in fs : NumberedPath(path, m, q)

\* this step ends a target's export with success: its OK line is appended
ExportedOK ==
    /\ Len(ex'.log_lines) = Len(ex.log_lines) + 1
    /\ ex'.log_lines[Len(ex'.log_lines)].status = "OK"

\* C24: a batch export never overwrites a file.  With each successful export
\* creating its file at the requested path: the path of a successful export
\* did not exist when it was written, so it is neither a file from before the
\* run nor the path of an earlier target of the run, also when the sanitized
\* names or the template give the same file name; nothing else is written and
\* nothing removed; unique_path returns the path given when it does not
\* exist, and else root.NNN.ext with the smallest NNN >= 1, zero-padded to
\* three digits, that does not exist.
C24_NeverOverwrites ==
    [][/\ ExportedOK =>
              LET path == ex'.log_lines[Len(ex'.log_lines)].path IN
              /\ path = ex.out_path
              /\ path \notin files
              /\ files' = files \cup {path}
              /\ \A n \in 1..Len(ex.log_lines) :
                     ex.log_lines[n].status = "OK" => ex.log_lines[n].path # path
       /\ ~ExportedOK => files' = files
       /\ ex.pc = "unique" /\ ex'.pc = "export" => UniqueResult(ex.fname, files, ex'.out_path)
      ]_vars

\* a run over the objects "a b" and "a_b", whose sanitized names are the same,
\* into a directory that held the file of that name: both exported, to the
\* paths numbered 001 and 002, the earlier file still there
C24_Witness ==
    /\ Ended /\ ex.ret = "FINISHED" /\ ex.ok_count = 2
    /\ ex.targets = <<1, 2>>
    /\ ex.fname \in files
    /\ ex.log_lines[1].path = Candidate(ex.fname, 1)
    /\ ex.log_lines[2].path = Candidate(ex.fname, 2)
    /\ Cardinality(files) = 3

(***************************************************************************)
(* Specifications: one session per add-on, the other add-ons at rest       *)
(***************************************************************************)
Init == TSInit /\ ExAtRest /\ RnAtRest

Next == TSNext

Spec == Init /\ [][Next]_vars

InitExport == ExInit /\ RnAtRest

SpecExport == InitExport /\ [][ExNext]_vars

\* a running operator keeps running: the host executes execute() to its return
SpecExportFair == InitExport /\ [][ExNext]_vars /\ WF_vars(ExportRun)

InitGather == GatherInit /\ RnAtRest

SpecGather == InitGather /\ [][Gather]_vars

InitRename == RnInit /\ TSAtRest /\ ExAtRest

SpecRename == InitRename /\ [][RnNext]_vars

InitImages == ImagesInit /\ RnAtRest

SpecImages == InitImages /\ [][export_used_images]_vars

InitLog == LogInit /\ RnAtRest

SpecLog == InitLog /\ [][LogNext]_vars

InitCall == CallInit /\ RnAtRest
SpecCall == InitCall /\ [][ExNext]_vars

InitNumbering == NumberingInit /\ TSAtRest /\ ExAtRest
SpecNumbering == InitNumbering /\ [][Numbering]_vars

InitCase == CaseInit /\ TSAtRest /\ ExAtRest
SpecCase == InitCase /\ [][CaseNext]_vars

InitFlags == FlagsInit /\ ExAtRest /\ RnAtRest
SpecFlags == InitFlags /\ [][FlagsNext]_vars

InitTrip == TripInit /\ ExAtRest /\ RnAtRest
SpecTrip == InitTrip /\ [][FlagsNext]_vars

InitStale == StaleInit /\ ExAtRest /\ RnAtRest
SpecStale == InitStale /\ [][StaleNext]_vars

====
